---- MODULE Spec2Model ----
(***************************************************************************)
(* Data-access layer of poster-nextjs: the Redis-backed repositories       *)
(* (User, Subscription, Customer, Project, Conversation, Post).            *)
(*                                                                         *)
(* A Redis hash is a function whose DOMAIN is the set of fields present;   *)
(* a key that does not exist is the hash with the empty domain.  A plain   *)
(* string key space (the email index, the user->subscription index) is a   *)
(* function whose DOMAIN is the set of keys present.                       *)
(*                                                                         *)
(* Strings that the code transforms (emails, lower-cased for the index)    *)
(* are sequences of character codes; all other strings are opaque.         *)
(* Identifiers produced by uuidv4() are the naturals 1, 2, ... in order of *)
(* generation.                                                             *)
(***************************************************************************)
EXTENDS Integers, Sequences, FiniteSets, TLC

\* ---- bounds ----
MaxUsers == 2
MaxSubs == 2
MaxCustomers == 2
MaxProjects == 1
MaxConversations == 1
MaxPosts == 1
MaxMessages == 3
MaxCount == 4

\* ---- values ----
Null == -1
\* an id chosen by the caller (never produced by uuidv4), and the empty string as an id
CallerId == 100
EmptyId == 0
JsNull == "<null>"
StoredNull == "null"
\* JavaScript undefined as the value of an own property
JsUndefined == "<undefined>"

Names == {"n1", "n2"}
\* "", "A", "a", "b"
Emails == {<<>>, <<65>>, <<97>>, <<98>>}
SubscriptionIds == {"s1"}
\* the concurrent callers of the interleaved specifications
Callers == {1, 2}

VARIABLES userHash, emailIndex, nextUser,
          subHash, subUserIndex, nextSub,
          custHash, custPerms, userCustomers, nextCust,
          projHash, nextProj, custProjects, projConversations, projPosts,
          convHash, nextConv, convMessages, convPosts, postHash, nextPost,
          updCall, setCall, calls,
          last

vars == <<userHash, emailIndex, nextUser,
          subHash, subUserIndex, nextSub,
          custHash, custPerms, userCustomers, nextCust,
          projHash, nextProj, custProjects, projConversations, projPosts,
          convHash, nextConv, convMessages, convPosts, postHash, nextPost,
          updCall, setCall, calls,
          last>>

userVars == <<userHash, emailIndex, nextUser>>
subVars == <<subHash, subUserIndex, nextSub>>
custVars == <<custHash, custPerms, userCustomers, nextCust, custProjects>>
\* the project hashes and the sets that hold project relationships:
\* cust:<c>:projects, proj:<p>:conversations, proj:<p>:posts
projVars == <<projHash, nextProj, projConversations, projPosts>>
relVars == <<projConversations, projPosts>>
convVars == <<convHash, nextConv, convMessages, convPosts>>
postVars == <<postHash, nextPost>>
\* the calls in flight: an update and a setContentPieces on the Post repository,
\* and one call per concurrent caller on the User and Customer repositories
callVars == <<updCall, setCall, calls>>
\* the store and the id generators
storeVars == <<userVars, subVars, custVars, projVars, convVars, postVars>>

\* ---- store primitives ----
EmptyHash == [f \in {} |-> ""]

Exists(h) == DOMAIN h # {}

HSet(h, kv) == [f \in DOMAIN h \cup DOMAIN kv |-> IF f \in DOMAIN kv THEN kv[f] ELSE h[f]]

HDel(h, field) == [f \in DOMAIN h \ {field} |-> h[f]]

Get(index, k) == IF k \in DOMAIN index THEN index[k] ELSE Null

Set(index, k, v) == [x \in DOMAIN index \cup {k} |-> IF x = k THEN v ELSE index[x]]

Del(index, k) == [x \in DOMAIN index \ {k} |-> index[x]]

\* a store command, sent on its own or queued on a pipeline; the value of an
\* hset is the object of fields it writes
Cmd(cmd, key, field, value) == [cmd |-> cmd, key |-> key, field |-> field, value |-> value]

\* no caller has run a call command by command: the calls made so far ran one
\* after the other, each to completion
AllIdle == \A c \in Callers : calls[c].pc = "idle"

\* caller c has no call in flight: it has made none, or its last one returned
Ready(c) == calls[c].pc \in {"idle", "returned"}

\* the last-operation record of a step of caller c's call
Command(c) == [op |-> "command", ok |-> TRUE, caller |-> c]

\* calls are run command by command from the start of a behaviour: no call was
\* made yet, or the calls made so far were run command by command
CommandByCommand == ~AllIdle \/ last.op = "init"

\* String.prototype.toLowerCase on ASCII
toLowerCase(s) == [i \in 1..Len(s) |-> IF s[i] \in 65..90 THEN s[i] + 32 ELSE s[i]]

\* optional values: the empty set is "undefined", a singleton is a value
Opt(S) == {{}} \cup {{x} : x \in S}
The(o) == CHOOSE x \in o : TRUE

(***************************************************************************)
(* User repository (redisUserRepository.ts)                                *)
(***************************************************************************)
UserKeys == 1..MaxUsers

UserDatas == [name : Names, email : Emails, subscriptionId : SubscriptionIds \cup {JsNull}]

\* Partial<UserData>: a field is present iff it is !== undefined
PartialUserData(n, e, s) ==
    [f \in (IF n = {} THEN {} ELSE {"name"}) \cup (IF e = {} THEN {} ELSE {"email"})
           \cup (IF s = {} THEN {} ELSE {"subscriptionId"}) |->
        CASE f = "name" -> The(n)
          [] f = "email" -> The(e)
          [] f = "subscriptionId" -> The(s)]

PartialUserDatas ==
    {PartialUserData(n, e, s) : n \in Opt(Names), e \in Opt(Emails),
                                s \in Opt(SubscriptionIds \cup {JsNull})}

NoUser == [id |-> Null]

\* getById: null when the key is missing or name/email are not strings; a
\* stored "null" is read back as null by the client and is not a string
UserGetById(hashes, userId) ==
    LET data == hashes[userId] IN
    IF ~Exists(data) THEN NoUser
    ELSE IF "email" \notin DOMAIN data \/ "name" \notin DOMAIN data THEN NoUser
    ELSE [id |-> userId, email |-> data.email, name |-> data.name,
          subscriptionId |-> IF "subscriptionId" \in DOMAIN data /\ data.subscriptionId # StoredNull
                             THEN data.subscriptionId ELSE JsNull]

getEmailIndexKey(email) == toLowerCase(email)

\* findByEmail: index lookup on the lower-cased email, then getById
UserFindByEmail(hashes, index, email) ==
    LET userId == Get(index, getEmailIndexKey(email)) IN
    IF userId = Null THEN NoUser ELSE UserGetById(hashes, userId)

\* the two throws at the head of upsert
UpsertRejects(mode, existingUserId) ==
    \/ mode = "create" /\ existingUserId # Null
    \/ mode = "update" /\ existingUserId = Null

\* hset serialises a null value as the string "null"
UpsertHash(data) ==
    [name |-> data.name, email |-> data.email,
     subscriptionId |-> IF data.subscriptionId = JsNull THEN StoredNull ELSE data.subscriptionId]

\* upsert called while no other call is in flight: its GET, HSET and SET run
\* back to back
UserUpsert(data, mode) ==
    AllIdle /\
    LET emailIndexKey == getEmailIndexKey(data.email)
        existingUserId == Get(emailIndex, emailIndexKey)
        userId == IF existingUserId # Null THEN existingUserId ELSE nextUser
    IN
    IF UpsertRejects(mode, existingUserId)
    THEN /\ last' = [op |-> "user.upsert", ok |-> FALSE, mode |-> mode, email |-> data.email, id |-> Null]
         /\ UNCHANGED userVars
    ELSE /\ userId <= MaxUsers
         /\ userHash' = [userHash EXCEPT ![userId] = HSet(@, UpsertHash(data))]
         /\ emailIndex' = Set(emailIndex, emailIndexKey, userId)
         /\ nextUser' = IF existingUserId # Null THEN nextUser ELSE nextUser + 1
         /\ last' = [op |-> "user.upsert", ok |-> TRUE, mode |-> mode, email |-> data.email, id |-> userId]

\* the User that upsert (and create) returns
UserUpsertReturn(data, userId) ==
    [id |-> userId, name |-> data.name, email |-> data.email, subscriptionId |-> data.subscriptionId]

\* the fields update() copies into the HSET payload
UpdateData(data) ==
    [f \in {g \in DOMAIN data : g # "subscriptionId" \/ data[g] # JsNull} |-> data[f]]

\* `data.email && data.email.toLowerCase() !== currentUser.email.toLowerCase()`
EmailChanges(data, currentUser) ==
    /\ "email" \in DOMAIN data
    /\ data.email # <<>>
    /\ toLowerCase(data.email) # toLowerCase(currentUser.email)

\* `existingUserCheck && existingUserCheck !== userId`
EmailInUse(existingUserCheck, userId) ==
    existingUserCheck # Null /\ existingUserCheck # userId

\* the email argument of an update, as an optional value
EmailOf(data) == IF "email" \in DOMAIN data THEN {data.email} ELSE {}

\* the commands update queues on its pipeline, in order
UpdatePipeline(userId, data, currentUser) ==
    (IF DOMAIN UpdateData(data) # {}
     THEN <<Cmd("hset", "user", "", UpdateData(data))>> ELSE <<>>)
    \o (IF EmailChanges(data, currentUser)
        THEN <<Cmd("del", "user_email", getEmailIndexKey(currentUser.email), ""),
               Cmd("set", "user_email", getEmailIndexKey(data.email), userId)>>
        ELSE <<>>)
    \o (IF "subscriptionId" \in DOMAIN data /\ data.subscriptionId = JsNull
        THEN <<Cmd("hdel", "user", "subscriptionId", "")>> ELSE <<>>)

\* update called while no other call is in flight: getById, the GET of the new
\* index key and the commands of the pipeline run back to back.  pipe.exec()
\* throws on a pipeline with no command
UserUpdate(userId, data) ==
    AllIdle /\
    LET currentUser == UserGetById(userHash, userId) IN
    IF currentUser = NoUser
    THEN /\ last' = [op |-> "user.update", ok |-> FALSE, id |-> userId, email |-> EmailOf(data)]
         /\ UNCHANGED userVars
    ELSE LET updateData == UpdateData(data)
             changes == EmailChanges(data, currentUser)
             newEmailIndexKey == getEmailIndexKey(data.email)
             oldEmailIndexKey == getEmailIndexKey(currentUser.email)
         IN
         IF changes /\ EmailInUse(Get(emailIndex, newEmailIndexKey), userId)
         THEN /\ last' = [op |-> "user.update", ok |-> FALSE, id |-> userId, email |-> EmailOf(data)]
              /\ UNCHANGED userVars
         ELSE IF UpdatePipeline(userId, data, currentUser) = <<>>
         THEN /\ last' = [op |-> "user.update", ok |-> FALSE, id |-> userId, email |-> EmailOf(data)]
              /\ UNCHANGED userVars
         ELSE LET h1 == IF DOMAIN updateData # {} THEN HSet(userHash[userId], updateData)
                        ELSE userHash[userId]
                  h2 == IF "subscriptionId" \in DOMAIN data /\ data.subscriptionId = JsNull
                        THEN HDel(h1, "subscriptionId") ELSE h1
              IN
              /\ userHash' = [userHash EXCEPT ![userId] = h2]
              /\ emailIndex' = IF changes
                               THEN Set(Del(emailIndex, oldEmailIndexKey), newEmailIndexKey, userId)
                               ELSE emailIndex
              /\ UNCHANGED nextUser
              /\ last' = [op |-> "user.update", ok |-> TRUE, id |-> userId, email |-> EmailOf(data),
                          oldEmail |-> currentUser.email]

UserSetSubscriptionId(userId, subscriptionId) ==
    /\ userHash' = [userHash EXCEPT ![userId] =
                       IF subscriptionId = JsNull THEN HDel(@, "subscriptionId")
                       ELSE HSet(@, [subscriptionId |-> subscriptionId])]
    /\ UNCHANGED <<emailIndex, nextUser>>
    /\ last' = [op |-> "user.setSubscriptionId", ok |-> TRUE, id |-> userId]

\* a delete that leaves the email index alone
UserDelete_mut(userId) ==
    AllIdle /\
    LET user == UserGetById(userHash, userId) IN
    IF user = NoUser
    THEN /\ last' = [op |-> "user.delete", ok |-> FALSE, id |-> userId]
         /\ UNCHANGED userVars
    ELSE /\ userHash' = [userHash EXCEPT ![userId] = EmptyHash]
         /\ UNCHANGED <<emailIndex, nextUser>>
         /\ last' = [op |-> "user.delete", ok |-> TRUE, id |-> userId, email |-> user.email]

\* delete called while no other call is in flight: getById and the two DELs
\* of the pipeline run back to back
UserDelete(userId) ==
    AllIdle /\
    LET user == UserGetById(userHash, userId) IN
    IF user = NoUser
    THEN /\ last' = [op |-> "user.delete", ok |-> FALSE, id |-> userId]
         /\ UNCHANGED userVars
    ELSE /\ userHash' = [userHash EXCEPT ![userId] = EmptyHash]
         /\ emailIndex' = Del(emailIndex, getEmailIndexKey(user.email))
         /\ UNCHANGED nextUser
         /\ last' = [op |-> "user.delete", ok |-> TRUE, id |-> userId, email |-> user.email]

\* ids a caller can hold: the generated ones (a deleted one names a missing record)
KnownUserIds == 1..(nextUser - 1)

UserUpsertStep == \E data \in UserDatas, mode \in {"create", "update", "none"} : UserUpsert(data, mode)
UserUpdateStep == \E userId \in KnownUserIds, data \in PartialUserDatas : UserUpdate(userId, data)
UserSetSubscriptionIdStep ==
    \E userId \in KnownUserIds, s \in SubscriptionIds \cup {JsNull} : UserSetSubscriptionId(userId, s)
UserDeleteStep == \E userId \in KnownUserIds : UserDelete(userId)

(***************************************************************************)
(* Subscription repository (RedisSubscriptionRepository)                   *)
(***************************************************************************)
SubKeys == 1..MaxSubs
SubUserIds == {"u1", "u2"}
PlanTypes == {"free", "pro"}
Statuses == {"active"}

SubscriptionDatas == [userId : SubUserIds, planType : PlanTypes, status : Statuses]

PartialSubscriptionData(u, p, s) ==
    [f \in (IF u = {} THEN {} ELSE {"userId"}) \cup (IF p = {} THEN {} ELSE {"planType"})
           \cup (IF s = {} THEN {} ELSE {"status"}) |->
        CASE f = "userId" -> The(u)
          [] f = "planType" -> The(p)
          [] f = "status" -> The(s)]

PartialSubscriptionDatas ==
    {PartialSubscriptionData(u, p, s) : u \in Opt(SubUserIds), p \in Opt(PlanTypes), s \in Opt(Statuses)}

NoSubscription == [id |-> Null]

SubGetById(hashes, subscriptionId) ==
    LET data == hashes[subscriptionId] IN
    IF ~Exists(data) THEN NoSubscription
    ELSE IF {"userId", "planType", "status"} \subseteq DOMAIN data
         THEN [id |-> subscriptionId, userId |-> data.userId,
               planType |-> data.planType, status |-> data.status]
         ELSE NoSubscription

SubFindByUserId(hashes, index, userId) ==
    LET subscriptionId == Get(index, userId) IN
    IF subscriptionId = Null THEN NoSubscription ELSE SubGetById(hashes, subscriptionId)

\* create called while no other call is in flight: the GET of the user index
\* and the HSET and SET of the pipeline run back to back
SubCreate(data) ==
    AllIdle /\
    LET existingSubId == Get(subUserIndex, data.userId) IN
    IF existingSubId # Null
    THEN /\ last' = [op |-> "sub.create", ok |-> FALSE, userId |-> data.userId, id |-> existingSubId]
         /\ UNCHANGED subVars
    ELSE /\ nextSub <= MaxSubs
         /\ subHash' = [subHash EXCEPT ![nextSub] =
                           HSet(@, [userId |-> data.userId, planType |-> data.planType,
                                    status |-> data.status])]
         /\ subUserIndex' = Set(subUserIndex, data.userId, nextSub)
         /\ nextSub' = nextSub + 1
         /\ last' = [op |-> "sub.create", ok |-> TRUE, userId |-> data.userId, id |-> nextSub]

\* update never writes userId, and does not check that the key exists
SubUpdatePayload(data) == [f \in DOMAIN data \ {"userId"} |-> data[f]]

SubUpdate(subscriptionId, data) ==
    LET updatePayload == SubUpdatePayload(data) IN
    /\ subHash' = [subHash EXCEPT ![subscriptionId] =
                      IF DOMAIN updatePayload # {} THEN HSet(@, updatePayload) ELSE @]
    /\ UNCHANGED <<subUserIndex, nextSub>>
    /\ last' = [op |-> "sub.update", ok |-> TRUE, id |-> subscriptionId]

SubSetUserId(subscriptionId, userId) ==
    /\ subHash' = [subHash EXCEPT ![subscriptionId] =
                      IF userId = JsNull THEN HDel(@, "userId") ELSE HSet(@, [userId |-> userId])]
    /\ UNCHANGED <<subUserIndex, nextSub>>
    /\ last' = [op |-> "sub.setUserId", ok |-> TRUE, id |-> subscriptionId, userId |-> userId]

\* delete called while no other call is in flight: getById and the two DELs
\* of the pipeline run back to back
SubDelete(subscriptionId) ==
    AllIdle /\
    LET subscription == SubGetById(subHash, subscriptionId) IN
    IF subscription = NoSubscription
    THEN /\ last' = [op |-> "sub.delete", ok |-> FALSE, id |-> subscriptionId]
         /\ UNCHANGED subVars
    ELSE /\ subHash' = [subHash EXCEPT ![subscriptionId] = EmptyHash]
         /\ subUserIndex' = Del(subUserIndex, subscription.userId)
         /\ UNCHANGED nextSub
         /\ last' = [op |-> "sub.delete", ok |-> TRUE, id |-> subscriptionId,
                     userId |-> subscription.userId]

KnownSubIds == 1..(nextSub - 1)

SubCreateStep == \E data \in SubscriptionDatas : SubCreate(data)
SubUpdateStep == \E id \in KnownSubIds, data \in PartialSubscriptionDatas : SubUpdate(id, data)
SubSetUserIdStep == \E id \in KnownSubIds, u \in SubUserIds \cup {JsNull} : SubSetUserId(id, u)
SubDeleteStep == \E id \in KnownSubIds : SubDelete(id)

(***************************************************************************)
(* Customer repository, sorted-set indexed (redisCustomerRepository.ts)    *)
(* The customer's project set (cust:<id>:projects) is custProjects: delete *)
(* removes the whole set, addProject and removeProject change one member.  *)
(***************************************************************************)
CustKeys == 1..MaxCustomers
\* user ids; the first is the empty string
CustUsers == {"", "A", "B"}
Roles == {"owner", "admin", "editor", "viewer"}
CustNames == {"c1"}
\* "" is the empty string
Industries == {"i1", ""}
AiContexts == {[goal |-> "g1"]}
\* JavaScript null where an aiContext object is expected
NullContext == [null |-> JsNull]

ROLE_PRIORITY == [owner |-> 4, admin |-> 3, editor |-> 2, viewer |-> 1]

\* JSON text is a sequence of tokens; the empty string is the empty sequence
JSONstringify(obj) == <<"json", obj>>
JSONparse(text) == text[2]

\* CustomerData / Partial<CustomerData>: a field is present iff it is defined
CustomerRecord(n, o, i, a) ==
    [f \in (IF n = {} THEN {} ELSE {"name"}) \cup (IF o = {} THEN {} ELSE {"ownerUserId"})
           \cup (IF i = {} THEN {} ELSE {"industry"}) \cup (IF a = {} THEN {} ELSE {"aiContext"}) |->
        CASE f = "name" -> The(n)
          [] f = "ownerUserId" -> The(o)
          [] f = "industry" -> The(i)
          [] f = "aiContext" -> The(a)]

CustomerDatas ==
    {CustomerRecord({n}, {o}, i, a) : n \in CustNames, o \in CustUsers, i \in Opt(Industries),
                                      a \in Opt(AiContexts)}

\* JavaScript undefined as the value of the property aiContext
UndefinedContext == [undefined |-> JsUndefined]

\* Partial<CustomerData>: a property can also be given with the value undefined
PartialCustomerDatas ==
    {CustomerRecord(n, o, i, a) : n \in Opt(CustNames \cup {JsUndefined}),
                                  o \in Opt(CustUsers \cup {JsUndefined}),
                                  i \in Opt(Industries \cup {JsUndefined}),
                                  a \in Opt(AiContexts \cup {UndefinedContext})}

\* the property f of r has a value other than undefined
HasValue(r, f) ==
    f \in DOMAIN r /\ r[f] # (IF f = "aiContext" THEN UndefinedContext ELSE JsUndefined)

\* JavaScript truthiness of a user id read from the store: null, undefined
\* and the empty string are falsy
Truthy(userId) == userId \notin {JsNull, JsUndefined, ""}

\* the main-hash payload written by create and update: `industry || ''` and
\* `aiContext ? JSON.stringify(aiContext) : ''`
CustomerHash(data) ==
    [name |-> data.name,
     ownerUserId |-> data.ownerUserId,
     industry |-> IF HasValue(data, "industry") /\ data.industry # "" THEN data.industry ELSE "",
     aiContext_json |-> IF HasValue(data, "aiContext") THEN JSONstringify(data.aiContext) ELSE <<>>]

\* getPermissions: entries whose role is one of the four roles
CustGetPermissions(perms, customerId) ==
    LET permissions == perms[customerId] IN
    [u \in {v \in DOMAIN permissions : permissions[v] \in Roles} |-> permissions[u]]

NoCustomer == [id |-> Null]

CustGetById(hashes, perms, customerId) ==
    LET data == hashes[customerId] IN
    IF ~Exists(data) THEN NoCustomer
    ELSE LET present == {"id", "permissions"}
                 \cup ({"name", "ownerUserId"} \cap DOMAIN data)
                 \cup (IF "industry" \in DOMAIN data /\ data.industry # "" THEN {"industry"} ELSE {})
                 \cup (IF "aiContext_json" \in DOMAIN data /\ data.aiContext_json # <<>>
                       THEN {"aiContext"} ELSE {})
         IN [f \in present |->
                CASE f = "id" -> customerId
                  [] f = "permissions" -> CustGetPermissions(perms, customerId)
                  [] f = "aiContext" -> JSONparse(data.aiContext_json)
                  [] OTHER -> data[f]]

ZAdd(zset, member, score) == Set(zset, member, score)
ZRem(zset, member) == Del(zset, member)

\* listUserCustomers: (customerId, role) for every member whose score is a role priority
ListUserCustomers(zsets, userId) ==
    {[customerId |-> c, role |-> CHOOSE r \in Roles : ROLE_PRIORITY[r] = zsets[userId][c]] :
        c \in {d \in DOMAIN zsets[userId] : \E r \in Roles : ROLE_PRIORITY[r] = zsets[userId][d]}}

\* create called while no other call is in flight: the three commands of its
\* pipeline run back to back
CustCreate(data) ==
    /\ AllIdle
    /\ nextCust <= MaxCustomers
    /\ custHash' = [custHash EXCEPT ![nextCust] = HSet(@, CustomerHash(data))]
    /\ custPerms' = [custPerms EXCEPT ![nextCust] = HSet(@, [u \in {data.ownerUserId} |-> "owner"])]
    /\ userCustomers' = [userCustomers EXCEPT ![data.ownerUserId] =
                            ZAdd(@, nextCust, ROLE_PRIORITY["owner"])]
    /\ nextCust' = nextCust + 1
    /\ UNCHANGED custProjects
    /\ last' = [op |-> "cust.create", ok |-> TRUE, id |-> nextCust, userId |-> data.ownerUserId]

\* the Customer that create returns: {id, ...data, permissions}
CustCreateReturn(data, customerId) ==
    [f \in DOMAIN data \cup {"id", "permissions"} |->
        CASE f = "id" -> customerId
          [] f = "permissions" -> [u \in {data.ownerUserId} |-> "owner"]
          [] OTHER -> data[f]]

\* {...existing, ...data}: an own property of data overrides, also when its
\* value is undefined
Merge(existing, data) ==
    [f \in DOMAIN existing \cup DOMAIN data |-> IF f \in DOMAIN data THEN data[f] ELSE existing[f]]

\* the fields of update's HSET whose value is undefined: name or ownerUserId
\* when the merged record has none (a record written by setOwner on a missing
\* customer has no name) or has it as undefined
UndefinedFields(updatedData) == {f \in {"name", "ownerUserId"} : ~HasValue(updatedData, f)}

\* update's HSET payload without the fields whose value is undefined
UpdateHash(updatedData) ==
    LET payload == CustomerHash(Merge([name |-> "", ownerUserId |-> ""], updatedData)) IN
    [f \in DOMAIN payload \ UndefinedFields(updatedData) |-> payload[f]]

\* update rewrites the main hash only; permissions and sorted sets are not touched.
\* An HSET that carries an undefined value is either rejected or written
\* without that field.  The call has no other call in flight: getById and the
\* HSET run back to back.
CustUpdate(customerId, data) ==
    AllIdle /\
    LET existing == CustGetById(custHash, custPerms, customerId) IN
    IF existing = NoCustomer
    THEN /\ last' = [op |-> "cust.update", ok |-> FALSE, id |-> customerId]
         /\ UNCHANGED custVars
    ELSE LET updatedData == Merge(existing, data) IN
         IF UndefinedFields(updatedData) = {}
         THEN /\ custHash' = [custHash EXCEPT ![customerId] = HSet(@, UpdateHash(updatedData))]
              /\ UNCHANGED <<custPerms, userCustomers, nextCust, custProjects>>
              /\ last' = [op |-> "cust.update", ok |-> TRUE, id |-> customerId]
         ELSE \/ /\ last' = [op |-> "cust.update", ok |-> FALSE, id |-> customerId]
                 /\ UNCHANGED custVars
              \/ /\ custHash' = [custHash EXCEPT ![customerId] = HSet(@, UpdateHash(updatedData))]
                 /\ UNCHANGED <<custPerms, userCustomers, nextCust, custProjects>>
                 /\ last' = [op |-> "cust.update", ok |-> TRUE, id |-> customerId]

\* zrem of the customer from the sorted set of every user in its permission map
ZRemAll(zsets, userIds, customerId) ==
    [u \in DOMAIN zsets |-> IF u \in userIds THEN ZRem(zsets[u], customerId) ELSE zsets[u]]

\* delete called while no other call is in flight: getById, getPermissions and
\* the commands of the pipeline (DEL of the main hash, of the permission map
\* and of the project set, then one ZREM per user) run back to back
CustDelete(customerId) ==
    AllIdle /\
    LET customer == CustGetById(custHash, custPerms, customerId) IN
    IF customer = NoCustomer
    THEN /\ last' = [op |-> "cust.delete", ok |-> TRUE, id |-> customerId, found |-> FALSE]
         /\ UNCHANGED custVars
    ELSE LET userIds == DOMAIN CustGetPermissions(custPerms, customerId) IN
         /\ custHash' = [custHash EXCEPT ![customerId] = EmptyHash]
         /\ custPerms' = [custPerms EXCEPT ![customerId] = EmptyHash]
         /\ custProjects' = [custProjects EXCEPT ![customerId] = {}]
         /\ userCustomers' = ZRemAll(userCustomers, userIds, customerId)
         /\ UNCHANGED nextCust
         /\ last' = [op |-> "cust.delete", ok |-> TRUE, id |-> customerId, found |-> TRUE]

\* setPermission called while no other call is in flight
CustSetPermission(customerId, userId, role) ==
    /\ AllIdle
    /\ custPerms' = [custPerms EXCEPT ![customerId] = HSet(@, [u \in {userId} |-> role])]
    /\ userCustomers' = [userCustomers EXCEPT ![userId] = ZAdd(@, customerId, ROLE_PRIORITY[role])]
    /\ UNCHANGED <<custHash, nextCust, custProjects>>
    /\ last' = [op |-> "cust.setPermission", ok |-> TRUE, id |-> customerId, userId |-> userId]

\* the permission-map part of removePermission
RemovePermissionPerms(permissions, userId) == HDel(permissions, userId)

\* removePermission that forgets the zrem
RemovePermissionZset_mut(zset, customerId) == zset

\* the sorted-set part of removePermission
RemovePermissionZset(zset, customerId) == ZRem(zset, customerId)

\* removePermission called while no other call is in flight
CustRemovePermission(customerId, userId) ==
    /\ AllIdle
    /\ custPerms' = [custPerms EXCEPT ![customerId] = RemovePermissionPerms(@, userId)]
    /\ userCustomers' = [userCustomers EXCEPT ![userId] = RemovePermissionZset(@, customerId)]
    /\ UNCHANGED <<custHash, nextCust, custProjects>>
    /\ last' = [op |-> "cust.removePermission", ok |-> TRUE, id |-> customerId, userId |-> userId,
                had |-> userId \in DOMAIN custPerms[customerId],
                wasOwner |-> ("ownerUserId" \in DOMAIN custHash[customerId]
                              /\ custHash[customerId].ownerUserId = userId)]

\* the permission-map commands of setOwner's pipeline, in order: the HDEL is
\* queued `if (currentOwnerUserId)`
SetOwnerPerms(permissions, currentOwnerUserId, newOwnerUserId) ==
    LET p1 == HSet(permissions, [u \in {newOwnerUserId} |-> "owner"]) IN
    IF Truthy(currentOwnerUserId) THEN HDel(p1, currentOwnerUserId) ELSE p1

\* the sorted-set commands of setOwner's pipeline, in order: the ZREM is
\* queued `if (currentOwnerCustomersKey)`, a key that exists when
\* currentOwnerUserId is truthy
SetOwnerZsets(zsets, customerId, currentOwnerUserId, newOwnerUserId) ==
    LET z1 == [zsets EXCEPT ![newOwnerUserId] = ZAdd(@, customerId, ROLE_PRIORITY["owner"])] IN
    IF Truthy(currentOwnerUserId)
    THEN [z1 EXCEPT ![currentOwnerUserId] = ZRem(@, customerId)]
    ELSE z1

\* setOwner called while no other call is in flight: the HGET of ownerUserId
\* (null when the hash has no such field) and the commands of the pipeline run
\* back to back
CustSetOwner(customerId, newOwnerUserId) ==
    LET currentOwnerUserId == IF "ownerUserId" \in DOMAIN custHash[customerId]
                              THEN custHash[customerId].ownerUserId ELSE JsNull
    IN
    /\ AllIdle
    /\ custHash' = [custHash EXCEPT ![customerId] = HSet(@, [ownerUserId |-> newOwnerUserId])]
    /\ custPerms' = [custPerms EXCEPT ![customerId] =
                        SetOwnerPerms(@, currentOwnerUserId, newOwnerUserId)]
    /\ userCustomers' = SetOwnerZsets(userCustomers, customerId, currentOwnerUserId, newOwnerUserId)
    /\ UNCHANGED <<nextCust, custProjects>>
    /\ last' = [op |-> "cust.setOwner", ok |-> TRUE, id |-> customerId, userId |-> newOwnerUserId,
                prevOwner |-> currentOwnerUserId]

\* addProject / removeProject: SADD / SREM on cust:<c>:projects, without
\* checking that the customer exists
CustAddProject(customerId, projectId) ==
    /\ custProjects' = [custProjects EXCEPT ![customerId] = @ \cup {projectId}]
    /\ UNCHANGED <<custHash, custPerms, userCustomers, nextCust>>
    /\ last' = [op |-> "cust.addProject", ok |-> TRUE, id |-> projectId]

CustRemoveProject(customerId, projectId) ==
    /\ custProjects' = [custProjects EXCEPT ![customerId] = @ \ {projectId}]
    /\ UNCHANGED <<custHash, custPerms, userCustomers, nextCust>>
    /\ last' = [op |-> "cust.removeProject", ok |-> TRUE, id |-> projectId]

KnownCustIds == 1..(nextCust - 1)

\* at most one customer was created: the specifications that are not about
\* the users' sorted sets keep to one customer
OneCustomer == nextCust <= 2

CustCreateStep == \E data \in CustomerDatas : CustCreate(data)
\* update with at most one property given
CustUpdateStep ==
    \E id \in KnownCustIds, data \in PartialCustomerDatas :
        Cardinality(DOMAIN data) <= 1 /\ CustUpdate(id, data)
CustDeleteStep == \E id \in KnownCustIds : CustDelete(id)
CustSetPermissionStep ==
    \E id \in KnownCustIds, u \in CustUsers, r \in Roles : CustSetPermission(id, u, r)
CustRemovePermissionStep == \E id \in KnownCustIds, u \in CustUsers : CustRemovePermission(id, u)
CustSetOwnerStep == \E id \in KnownCustIds, u \in CustUsers : CustSetOwner(id, u)
CustAddProjectStep == \E id \in KnownCustIds : CustAddProject(id, 1)
CustRemoveProjectStep == \E id \in KnownCustIds : CustRemoveProject(id, 1)

(***************************************************************************)
(* upsert of Project, Conversation and Post                                *)
(* (redisProjectRepository.ts, redisConversationRepository.ts,             *)
(*  redisPostRepository.ts)                                                *)
(***************************************************************************)
\* cleanHashData: null/undefined fields are dropped (absent fields here)
ProjKeys == (1..MaxProjects) \cup {CallerId}
ConvKeys == (1..MaxConversations) \cup {CallerId}
PostKeys == (1..MaxPosts) \cup {CallerId}

Modes == {"create", "update", "none"}

ProjectNames == {"p1", "p2"}
CustomerIds == CustKeys \cup {CallerId}
\* the customer ids that projects are moved to and that project sets are
\* changed for: the first customer's id and an id of no customer
ProjectCustomerIds == {1, CallerId}
Objectives == {"o1"}

ProjectRecord(n, c, o, a) ==
    [f \in (IF n = {} THEN {} ELSE {"name"}) \cup (IF c = {} THEN {} ELSE {"customerId"})
           \cup (IF o = {} THEN {} ELSE {"objective"}) \cup (IF a = {} THEN {} ELSE {"aiContext"}) |->
        CASE f = "name" -> The(n)
          [] f = "customerId" -> The(c)
          [] f = "objective" -> The(o)
          [] f = "aiContext" -> The(a)]

ProjectDatas ==
    {ProjectRecord({n}, {1}, o, a) : n \in ProjectNames, o \in Opt(Objectives), a \in Opt(AiContexts)}

\* cleanHashData({name, customerId, objective, aiContext_json: data.aiContext})
\* (cleanHashData drops the fields whose value is null or undefined)
ProjectHash(data) ==
    [f \in {"name", "customerId"}
           \cup (IF "objective" \in DOMAIN data /\ data.objective # JsNull THEN {"objective"} ELSE {})
           \cup (IF "aiContext" \in DOMAIN data /\ data.aiContext # NullContext
                 THEN {"aiContext_json"} ELSE {}) |->
        IF f = "aiContext_json" THEN JSONstringify(data.aiContext) ELSE data[f]]

NoProject == [id |-> Null]

\* getById: null when the key is missing or name/customerId are not strings
ProjGetById(hashes, projectId) ==
    LET data == hashes[projectId] IN
    IF ~Exists(data) THEN NoProject
    ELSE IF "name" \notin DOMAIN data \/ "customerId" \notin DOMAIN data THEN NoProject
    ELSE [f \in {"id", "name", "customerId"} \cup ({"objective"} \cap DOMAIN data)
                \cup (IF "aiContext_json" \in DOMAIN data THEN {"aiContext"} ELSE {}) |->
             CASE f = "id" -> projectId
               [] f = "aiContext" -> JSONparse(data.aiContext_json)
               [] OTHER -> data[f]]

\* the Project that upsert (and create) returns
ProjUpsertReturn(data, projectId) ==
    [f \in DOMAIN data \cup {"id"} |-> IF f = "id" THEN projectId ELSE data[f]]

\* upsert that does not probe the key in 'create' mode
ProjectUpsertCheck_mut(mode, providedProjectId, hashes) ==
    IF mode = "none" THEN "mode-required"
    ELSE IF mode = "update"
    THEN IF providedProjectId = {} \/ providedProjectId = {EmptyId} THEN "id-required"
         ELSE IF ~Exists(hashes[The(providedProjectId)]) THEN "not-found"
         ELSE "ok"
    ELSE "ok"

\* the checks at the head of upsert: the error thrown, or "ok"
ProjectUpsertCheck(mode, providedProjectId, hashes) ==
    IF mode = "none" THEN "mode-required"
    ELSE IF mode = "update"
    THEN IF providedProjectId = {} \/ providedProjectId = {EmptyId} THEN "id-required"
         ELSE IF ~Exists(hashes[The(providedProjectId)]) THEN "not-found"
         ELSE "ok"
    ELSE IF providedProjectId # {} /\ providedProjectId # {EmptyId}
            /\ Exists(hashes[The(providedProjectId)])
         THEN "already-exists"
         ELSE "ok"

\* the id upsert writes to: the provided one, or a new uuid
EffectiveId(providedId, nextId) ==
    IF providedId # {} /\ providedId # {EmptyId} THEN The(providedId) ELSE nextId

\* upsert called while no other call is in flight: the EXISTS and the HSET run
\* back to back
ProjUpsert(data, mode, providedProjectId) ==
    AllIdle /\
    LET check == ProjectUpsertCheck(mode, providedProjectId, projHash)
        effectiveProjectId == EffectiveId(providedProjectId, nextProj)
    IN
    IF check # "ok"
    THEN /\ last' = [op |-> "proj.upsert", ok |-> FALSE, mode |-> mode, provided |-> providedProjectId,
                     error |-> check]
         /\ UNCHANGED projVars
    ELSE /\ effectiveProjectId \in ProjKeys
         /\ projHash' = [projHash EXCEPT ![effectiveProjectId] = HSet(@, ProjectHash(data))]
         /\ nextProj' = IF effectiveProjectId = nextProj THEN nextProj + 1 ELSE nextProj
         /\ UNCHANGED relVars
         /\ last' = [op |-> "proj.upsert", ok |-> TRUE, mode |-> mode, provided |-> providedProjectId,
                     id |-> effectiveProjectId]

\* setCustomer writes the field without checking that the project exists
ProjSetCustomer(projectId, customerId) ==
    /\ projHash' = [projHash EXCEPT ![projectId] = HSet(@, [customerId |-> customerId])]
    /\ UNCHANGED <<nextProj, relVars>>
    /\ last' = [op |-> "proj.setCustomer", ok |-> TRUE, id |-> projectId]

\* updateAiContext writes the field without checking that the project exists
ProjUpdateAiContext(projectId, context) ==
    /\ projHash' = [projHash EXCEPT ![projectId] = HSet(@, [aiContext_json |-> JSONstringify(context)])]
    /\ UNCHANGED <<nextProj, relVars>>
    /\ last' = [op |-> "proj.updateAiContext", ok |-> TRUE, id |-> projectId]

\* delete called while no other call is in flight: SMEMBERS of the conversation
\* set (unused) and the three DELs (main hash, conversation set, post set) run
\* back to back
ProjDelete(projectId) ==
    /\ AllIdle
    /\ projHash' = [projHash EXCEPT ![projectId] = EmptyHash]
    /\ projConversations' = [projConversations EXCEPT ![projectId] = {}]
    /\ projPosts' = [projPosts EXCEPT ![projectId] = {}]
    /\ UNCHANGED nextProj
    /\ last' = [op |-> "proj.delete", ok |-> TRUE, id |-> projectId]

\* a Partial<ProjectData> for update; an optional field can be given as null
PartialProjectDatas ==
    {ProjectRecord(n, c, o, a) : n \in Opt({"p2"}), c \in Opt({CallerId}),
                                 o \in Opt(Objectives \cup {JsNull}),
                                 a \in Opt(AiContexts \cup {NullContext})}

\* update's mergedData: `??` for name and customerId, `!== undefined` for the
\* optional fields
MergedProject(existingProject, data) ==
    LET o == IF "objective" \in DOMAIN data THEN {data.objective}
             ELSE IF "objective" \in DOMAIN existingProject THEN {existingProject.objective} ELSE {}
        a == IF "aiContext" \in DOMAIN data THEN {data.aiContext}
             ELSE IF "aiContext" \in DOMAIN existingProject THEN {existingProject.aiContext} ELSE {}
    IN ProjectRecord({IF "name" \in DOMAIN data THEN data.name ELSE existingProject.name},
                     {IF "customerId" \in DOMAIN data THEN data.customerId
                      ELSE existingProject.customerId},
                     o, a)

\* update called while no other call is in flight: getById, merge, then upsert
\* in 'update' mode with the id (EXISTS, HSET); returns upsert's record
ProjUpdate(projectId, data) ==
    AllIdle /\
    LET existingProject == ProjGetById(projHash, projectId)
        mergedData == MergedProject(existingProject, data)
    IN
    IF \/ existingProject = NoProject
       \/ ProjectUpsertCheck("update", {projectId}, projHash) # "ok"
    THEN /\ last' = [op |-> "proj.update", ok |-> FALSE, id |-> projectId]
         /\ UNCHANGED projVars
    ELSE /\ projHash' = [projHash EXCEPT ![projectId] = HSet(@, ProjectHash(mergedData))]
         /\ UNCHANGED <<nextProj, relVars>>
         /\ last' = [op |-> "proj.update", ok |-> TRUE, id |-> projectId,
                     returned |-> ProjUpsertReturn(mergedData, projectId)]

\* Partial<{name; objective}> for updateBasicInfo
PartialBasicInfos == {ProjectRecord(n, {}, o, {}) : n \in Opt({"p2"}), o \in Opt(Objectives)}

\* updateBasicInfo's upsertData: `??` for name, `!== undefined` for objective;
\* customerId and aiContext are the ones read
BasicInfoData(existingProject, data) ==
    LET o == IF "objective" \in DOMAIN data THEN {data.objective}
             ELSE IF "objective" \in DOMAIN existingProject THEN {existingProject.objective} ELSE {}
        a == IF "aiContext" \in DOMAIN existingProject THEN {existingProject.aiContext} ELSE {}
    IN ProjectRecord({IF "name" \in DOMAIN data THEN data.name ELSE existingProject.name},
                     {existingProject.customerId}, o, a)

\* updateBasicInfo called while no other call is in flight: getById, then
\* upsert of upsertData in 'update' mode with the id (EXISTS, HSET); returns
\* nothing
ProjUpdateBasicInfo(projectId, data) ==
    AllIdle /\
    LET existingProject == ProjGetById(projHash, projectId)
        upsertData == BasicInfoData(existingProject, data)
    IN
    IF \/ existingProject = NoProject
       \/ ProjectUpsertCheck("update", {projectId}, projHash) # "ok"
    THEN /\ last' = [op |-> "proj.updateBasicInfo", ok |-> FALSE, id |-> projectId]
         /\ UNCHANGED projVars
    ELSE /\ projHash' = [projHash EXCEPT ![projectId] = HSet(@, ProjectHash(upsertData))]
         /\ UNCHANGED <<nextProj, relVars>>
         /\ last' = [op |-> "proj.updateBasicInfo", ok |-> TRUE, id |-> projectId]

\* addConversation / removeConversation: SADD / SREM on proj:<p>:conversations
ProjAddConversation(projectId, conversationId) ==
    /\ projConversations' = [projConversations EXCEPT ![projectId] = @ \cup {conversationId}]
    /\ UNCHANGED <<projHash, nextProj, projPosts>>
    /\ last' = [op |-> "proj.addConversation", ok |-> TRUE, id |-> projectId]

ProjRemoveConversation(projectId, conversationId) ==
    /\ projConversations' = [projConversations EXCEPT ![projectId] = @ \ {conversationId}]
    /\ UNCHANGED <<projHash, nextProj, projPosts>>
    /\ last' = [op |-> "proj.removeConversation", ok |-> TRUE, id |-> projectId]

\* addPost / removePost: SADD / SREM on proj:<p>:posts
ProjAddPost(projectId, postId) ==
    /\ projPosts' = [projPosts EXCEPT ![projectId] = @ \cup {postId}]
    /\ UNCHANGED <<projHash, nextProj, projConversations>>
    /\ last' = [op |-> "proj.addPost", ok |-> TRUE, id |-> projectId]

ProjRemovePost(projectId, postId) ==
    /\ projPosts' = [projPosts EXCEPT ![projectId] = @ \ {postId}]
    /\ UNCHANGED <<projHash, nextProj, projConversations>>
    /\ last' = [op |-> "proj.removePost", ok |-> TRUE, id |-> projectId]

KnownProjIds == (1..(nextProj - 1)) \cup {CallerId}
ProvidedProjIds == {{}, {EmptyId}} \cup {{i} : i \in KnownProjIds}

ProjUpsertStep ==
    \E data \in ProjectDatas, mode \in Modes, id \in ProvidedProjIds : ProjUpsert(data, mode, id)
ProjSetCustomerStep == \E id \in KnownProjIds, c \in ProjectCustomerIds : ProjSetCustomer(id, c)
ProjDeleteStep == \E id \in KnownProjIds : ProjDelete(id)
ProjUpdateAiContextStep ==
    \E id \in KnownProjIds, context \in AiContexts : ProjUpdateAiContext(id, context)

\* ---- Conversation ----
ProjectIds == {"j1", "j2"}
Titles == {"t1", "t2"}

ConversationDatas == [projectId : {"j1"}, title : Titles]

ConversationHash(data) == [projectId |-> data.projectId, title |-> data.title]

NoConversation == [id |-> Null]

\* getById / getMetadataById: null when the key is missing or a field is not a string
ConvGetById(hashes, conversationId) ==
    LET data == hashes[conversationId] IN
    IF ~Exists(data) THEN NoConversation
    ELSE IF "projectId" \notin DOMAIN data \/ "title" \notin DOMAIN data THEN NoConversation
    ELSE [id |-> conversationId, projectId |-> data.projectId, title |-> data.title]

\* the Conversation that upsert (and create) returns
ConvUpsertReturn(data, conversationId) ==
    [id |-> conversationId, projectId |-> data.projectId, title |-> data.title]

ConversationUpsertCheck(mode, providedConversationId, hashes) ==
    IF mode = "none" THEN "mode-required"
    ELSE IF mode = "update"
    THEN IF providedConversationId = {} \/ providedConversationId = {EmptyId} THEN "id-required"
         ELSE IF ~Exists(hashes[The(providedConversationId)]) THEN "not-found"
         ELSE "ok"
    ELSE IF providedConversationId # {} /\ providedConversationId # {EmptyId}
            /\ Exists(hashes[The(providedConversationId)])
         THEN "already-exists"
         ELSE "ok"

\* upsert called while no other call is in flight: the EXISTS and the HSET run
\* back to back
ConvUpsert(data, mode, providedConversationId) ==
    AllIdle /\
    LET check == ConversationUpsertCheck(mode, providedConversationId, convHash)
        effectiveConversationId == EffectiveId(providedConversationId, nextConv)
    IN
    IF check # "ok"
    THEN /\ last' = [op |-> "conv.upsert", ok |-> FALSE, mode |-> mode,
                     provided |-> providedConversationId, error |-> check]
         /\ UNCHANGED convVars
    ELSE /\ effectiveConversationId \in ConvKeys
         /\ convHash' = [convHash EXCEPT ![effectiveConversationId] = HSet(@, ConversationHash(data))]
         /\ nextConv' = IF effectiveConversationId = nextConv THEN nextConv + 1 ELSE nextConv
         /\ UNCHANGED <<convMessages, convPosts>>
         /\ last' = [op |-> "conv.upsert", ok |-> TRUE, mode |-> mode,
                     provided |-> providedConversationId, id |-> effectiveConversationId]

\* setProject writes the field without checking that the conversation exists
ConvSetProject(conversationId, projectId) ==
    /\ convHash' = [convHash EXCEPT ![conversationId] = HSet(@, [projectId |-> projectId])]
    /\ UNCHANGED <<nextConv, convMessages, convPosts>>
    /\ last' = [op |-> "conv.setProject", ok |-> TRUE, id |-> conversationId]

\* addPost / removePost: SADD / SREM on conv:<id>:posts
ConvAddPost(conversationId, postId) ==
    /\ convPosts' = [convPosts EXCEPT ![conversationId] = @ \cup {postId}]
    /\ UNCHANGED <<convHash, nextConv, convMessages>>
    /\ last' = [op |-> "conv.addPost", ok |-> TRUE, id |-> conversationId]

ConvRemovePost(conversationId, postId) ==
    /\ convPosts' = [convPosts EXCEPT ![conversationId] = @ \ {postId}]
    /\ UNCHANGED <<convHash, nextConv, convMessages>>
    /\ last' = [op |-> "conv.removePost", ok |-> TRUE, id |-> conversationId]

\* delete called while no other call is in flight: the three DELs of its
\* pipeline (main hash, message list, post set) run back to back
ConvDelete(conversationId) ==
    /\ AllIdle
    /\ convHash' = [convHash EXCEPT ![conversationId] = EmptyHash]
    /\ convMessages' = [convMessages EXCEPT ![conversationId] = <<>>]
    /\ convPosts' = [convPosts EXCEPT ![conversationId] = {}]
    /\ UNCHANGED nextConv
    /\ last' = [op |-> "conv.delete", ok |-> TRUE, id |-> conversationId]

KnownConvIds == (1..(nextConv - 1)) \cup {CallerId}
ProvidedConvIds == {{}, {EmptyId}} \cup {{i} : i \in KnownConvIds}

\* ---- Conversation: update ----
\* a title can be the empty string
PartialTitles == Titles \cup {""}

PartialConversationData(j, t) ==
    [f \in (IF j = {} THEN {} ELSE {"projectId"}) \cup (IF t = {} THEN {} ELSE {"title"}) |->
        IF f = "projectId" THEN The(j) ELSE The(t)]

PartialConversationDatas ==
    {PartialConversationData(j, t) : j \in Opt(ProjectIds), t \in Opt(PartialTitles)}

\* mergedData of update: projectId is the stored one, title is `data.title || existing.title`
MergedConversation(existingConversation, data) ==
    [projectId |-> existingConversation.projectId,
     title |-> IF "title" \in DOMAIN data /\ data.title # "" THEN data.title
               ELSE existingConversation.title]

\* the Conversation that update returns
ConvUpdateReturn(hashes, conversationId, data) ==
    ConvUpsertReturn(MergedConversation(ConvGetById(hashes, conversationId), data), conversationId)

\* update called while no other call is in flight: getById, then upsert of the
\* merged data in 'update' mode (EXISTS, HSET)
ConvUpdate(conversationId, data) ==
    AllIdle /\
    LET existingConversation == ConvGetById(convHash, conversationId) IN
    IF existingConversation = NoConversation
    THEN /\ last' = [op |-> "conv.update", ok |-> FALSE, id |-> conversationId]
         /\ UNCHANGED convVars
    ELSE /\ convHash' = [convHash EXCEPT ![conversationId] =
                            HSet(@, ConversationHash(MergedConversation(existingConversation, data)))]
         /\ UNCHANGED <<nextConv, convMessages, convPosts>>
         /\ last' = [op |-> "conv.update", ok |-> TRUE, id |-> conversationId]

\* ---- Conversation: messages ----
\* The message list conv:<id>:messages is a sequence of strings.  The client
\* (new Redis({url, token}), automatic deserialization on) hands back each
\* element parsed when the string is JSON, and as the string otherwise.
MessageRoles == {"user"}
Contents == {"m1", "m2"}
Timestamps == {"t0", ""}
\* new Date().toISOString()
Now == "now"

Messages == [role : MessageRoles, content : Contents, timestamp : Opt(Timestamps)]

\* {...message, timestamp: message.timestamp || new Date().toISOString()}
MessageWithTimestamp(message) ==
    [role |-> message.role, content |-> message.content,
     timestamp |-> IF message.timestamp = {} \/ message.timestamp = {""} THEN Now
                   ELSE The(message.timestamp)]

\* a list entry that JSON.parse rejects
Malformed == <<"{">>

\* JSON.parse accepts the text
IsJSON(text) == Len(text) = 2 /\ text[1] = "json"

\* Redis LRANGE: zero-based inclusive range, negative indices count from the end
LRange(list, start, end) ==
    LET n == Len(list)
        s == IF start < 0 THEN (IF n + start < 0 THEN 0 ELSE n + start) ELSE start
        e == IF end < 0 THEN n + end ELSE (IF end > n - 1 THEN n - 1 ELSE end)
    IN IF s > e THEN <<>> ELSE SubSeq(list, s + 1, e + 1)

\* what the client returns for a stored string: the parsed value (which is not
\* a string) when the string is JSON, the string itself when it is not
Deserialize(text) == IF IsJSON(text) THEN <<"object", JSONparse(text)>> ELSE text

\* redis.lrange<string>(key, start, end) through the client
ClientLRange(list, start, end) ==
    LET range == LRange(list, start, end) IN [i \in 1..Len(range) |-> Deserialize(range[i])]

\* messages.map(msg => JSON.parse(msg)): throws when an element is not a
\* string of JSON; an element the client already parsed is coerced to
\* '[object Object]', which JSON.parse rejects
ParseAll(messages) ==
    IF \A i \in 1..Len(messages) : IsJSON(messages[i])
    THEN [ok |-> TRUE, value |-> [i \in 1..Len(messages) |-> JSONparse(messages[i])]]
    ELSE [ok |-> FALSE]

\* getMessages: lrange(messagesKey, start, end), then JSON.parse of each element
GetMessages(lists, conversationId, start, end) ==
    ParseAll(ClientLRange(lists[conversationId], start, end))

\* getRecentMessages: lrange(messagesKey, -count, -1), then JSON.parse of each element
GetRecentMessages(lists, conversationId, count) ==
    ParseAll(ClientLRange(lists[conversationId], -count, -1))

\* addMessage does not check that the conversation exists
ConvAddMessage(conversationId, message) ==
    /\ Len(convMessages[conversationId]) < MaxMessages
    /\ convMessages' = [convMessages EXCEPT ![conversationId] =
                           Append(@, JSONstringify(MessageWithTimestamp(message)))]
    /\ UNCHANGED <<convHash, nextConv, convPosts>>
    /\ last' = [op |-> "conv.addMessage", ok |-> TRUE, id |-> conversationId]

\* a writer other than the repository pushes a string that is not JSON
\* (redis.rpush(messagesKey, invalidJsonString))
RawRPush(conversationId) ==
    /\ Len(convMessages[conversationId]) < MaxMessages
    /\ convMessages' = [convMessages EXCEPT ![conversationId] = Append(@, Malformed)]
    /\ UNCHANGED <<convHash, nextConv, convPosts>>
    /\ last' = [op |-> "redis.rpush", ok |-> TRUE, id |-> conversationId]

ConvUpsertStep ==
    \E data \in ConversationDatas, mode \in Modes, id \in ProvidedConvIds : ConvUpsert(data, mode, id)
ConvSetProjectStep == \E id \in KnownConvIds, j \in ProjectIds : ConvSetProject(id, j)
ConvDeleteStep == \E id \in KnownConvIds : ConvDelete(id)
ConvUpdateStep == \E id \in KnownConvIds, data \in PartialConversationDatas : ConvUpdate(id, data)
ConvAddMessageStep == \E id \in KnownConvIds, message \in Messages : ConvAddMessage(id, message)
RawRPushStep == \E id \in KnownConvIds : RawRPush(id)

\* ---- Post ----
ContentPieces == {<<"a", "b">>, <<"b", "a">>}
ImageLinks == {"img"}

\* imageLink: undefined ({}), null ({JsNull}) or a string
PostDatas ==
    [conversationId : {"v1"}, targetPlatform : {"tw"}, postType : {"text"},
     imageLink : Opt(ImageLinks \cup {JsNull}), contentPieces : ContentPieces]

\* cleanHashData({..., imageLink, contentPieces_json: JSON.stringify(contentPieces)})
PostHash(data) ==
    [f \in {"conversationId", "targetPlatform", "postType", "contentPieces_json"}
           \cup (IF data.imageLink # {} /\ data.imageLink # {JsNull} THEN {"imageLink"} ELSE {}) |->
        CASE f = "contentPieces_json" -> JSONstringify(data.contentPieces)
          [] f = "imageLink" -> The(data.imageLink)
          [] OTHER -> data[f]]

NoPost == [id |-> Null]

\* getById: null when the key is missing or a required field is absent;
\* imageLink is null unless a string is stored
PostGetById(hashes, postId) ==
    LET data == hashes[postId] IN
    IF ~Exists(data) THEN NoPost
    ELSE IF ~({"conversationId", "targetPlatform", "postType", "contentPieces_json"} \subseteq DOMAIN data)
    THEN NoPost
    ELSE [id |-> postId, conversationId |-> data.conversationId,
          targetPlatform |-> data.targetPlatform, postType |-> data.postType,
          imageLink |-> IF "imageLink" \in DOMAIN data THEN data.imageLink ELSE JsNull,
          contentPieces |-> JSONparse(data.contentPieces_json)]

\* the Post that upsert (and create) returns: imageLink ?? null
PostUpsertReturn(data, postId) ==
    [id |-> postId, conversationId |-> data.conversationId,
     targetPlatform |-> data.targetPlatform, postType |-> data.postType,
     imageLink |-> IF data.imageLink = {} THEN JsNull ELSE The(data.imageLink),
     contentPieces |-> data.contentPieces]

PostUpsertCheck(mode, providedPostId, hashes) ==
    IF mode = "none" THEN "mode-required"
    ELSE IF mode = "update"
    THEN IF providedPostId = {} \/ providedPostId = {EmptyId} THEN "id-required"
         ELSE IF ~Exists(hashes[The(providedPostId)]) THEN "not-found"
         ELSE "ok"
    ELSE IF providedPostId # {} /\ providedPostId # {EmptyId} /\ Exists(hashes[The(providedPostId)])
         THEN "already-exists"
         ELSE "ok"

\* upsert called while no other call is in flight: the EXISTS, the HSET and the
\* HDEL of a null imageLink run back to back
PostUpsert(data, mode, providedPostId) ==
    AllIdle /\
    LET check == PostUpsertCheck(mode, providedPostId, postHash)
        effectivePostId == EffectiveId(providedPostId, nextPost)
    IN
    IF check # "ok"
    THEN /\ last' = [op |-> "post.upsert", ok |-> FALSE, mode |-> mode, provided |-> providedPostId,
                     error |-> check]
         /\ UNCHANGED postVars
    ELSE /\ effectivePostId \in PostKeys
         /\ postHash' = [postHash EXCEPT ![effectivePostId] =
                            LET h == HSet(@, PostHash(data)) IN
                            IF data.imageLink = {JsNull} THEN HDel(h, "imageLink") ELSE h]
         /\ nextPost' = IF effectivePostId = nextPost THEN nextPost + 1 ELSE nextPost
         /\ last' = [op |-> "post.upsert", ok |-> TRUE, mode |-> mode, provided |-> providedPostId,
                     id |-> effectivePostId]

\* setContentPieces writes the field without checking that the post exists
PostSetContentPieces(postId, content) ==
    /\ postHash' = [postHash EXCEPT ![postId] = HSet(@, [contentPieces_json |-> JSONstringify(content)])]
    /\ UNCHANGED nextPost
    /\ last' = [op |-> "post.setContentPieces", ok |-> TRUE, id |-> postId]

KnownPostIds == (1..(nextPost - 1)) \cup {CallerId}
ProvidedPostIds == {{}, {EmptyId}} \cup {{i} : i \in KnownPostIds}

\* ---- Post: update, command by command ----
\* Partial<Omit<PostData, 'conversationId' | 'imagePrompts' | 'contentPieces'>>
PartialPostData(t, y, i) ==
    [f \in (IF t = {} THEN {} ELSE {"targetPlatform"}) \cup (IF y = {} THEN {} ELSE {"postType"})
           \cup (IF i = {} THEN {} ELSE {"imageLink"}) |->
        CASE f = "targetPlatform" -> The(t)
          [] f = "postType" -> The(y)
          [] f = "imageLink" -> The(i)]

PartialPostDatas ==
    {PartialPostData(t, y, i) : t \in Opt({"fb"}), y \in Opt({"image"}),
                                i \in Opt(ImageLinks \cup {JsNull})}

\* mergedData of update: conversationId and contentPieces are the ones read
MergedPost(existingPost, data) ==
    [conversationId |-> existingPost.conversationId,
     targetPlatform |-> IF "targetPlatform" \in DOMAIN data THEN data.targetPlatform
                        ELSE existingPost.targetPlatform,
     postType |-> IF "postType" \in DOMAIN data THEN data.postType ELSE existingPost.postType,
     imageLink |-> IF "imageLink" \in DOMAIN data THEN {data.imageLink} ELSE {existingPost.imageLink},
     contentPieces |-> existingPost.contentPieces]

\* update, first command: getById (HGETALL); throws when the post is missing
PostUpdateRead(postId, data) ==
    LET existingPost == PostGetById(postHash, postId) IN
    /\ updCall.pc = "idle"
    /\ updCall' = IF existingPost = NoPost THEN [pc |-> "failed", id |-> postId]
                  ELSE [pc |-> "read", id |-> postId, mergedData |-> MergedPost(existingPost, data)]
    /\ UNCHANGED <<postVars, setCall>>
    /\ last' = [op |-> "post.update", ok |-> existingPost # NoPost, id |-> postId]

\* update, second command: upsert's EXISTS in 'update' mode
PostUpdateExists ==
    /\ updCall.pc = "read"
    /\ updCall' = IF PostUpsertCheck("update", {updCall.id}, postHash) = "ok"
                  THEN [updCall EXCEPT !.pc = "checked"]
                  ELSE [pc |-> "failed", id |-> updCall.id]
    /\ UNCHANGED <<postVars, setCall>>
    /\ last' = [op |-> "post.update", ok |-> updCall'.pc = "checked", id |-> updCall.id]

\* update, third command: upsert's HSET of the merged data
PostUpdateHSet ==
    /\ updCall.pc = "checked"
    /\ postHash' = [postHash EXCEPT ![updCall.id] = HSet(@, PostHash(updCall.mergedData))]
    /\ updCall' = [updCall EXCEPT !.pc = IF updCall.mergedData.imageLink = {JsNull}
                                          THEN "written" ELSE "done"]
    /\ UNCHANGED <<nextPost, setCall>>
    /\ last' = [op |-> "post.update", ok |-> TRUE, id |-> updCall.id]

\* update, last command: upsert's HDEL of imageLink when it is null
PostUpdateHDel ==
    /\ updCall.pc = "written"
    /\ postHash' = [postHash EXCEPT ![updCall.id] = HDel(@, "imageLink")]
    /\ updCall' = [updCall EXCEPT !.pc = "done"]
    /\ UNCHANGED <<nextPost, setCall>>
    /\ last' = [op |-> "post.update", ok |-> TRUE, id |-> updCall.id]

\* setContentPieces (a single HSET), recorded as the concurrent call
PostSetContentPiecesCall(postId, content) ==
    /\ setCall.pc = "idle"
    /\ PostSetContentPieces(postId, content)
    /\ setCall' = [pc |-> "done", id |-> postId, content |-> content]
    /\ UNCHANGED updCall

PostUpdateReadStep == \E id \in KnownPostIds, data \in PartialPostDatas : PostUpdateRead(id, data)
PostSetContentPiecesCallStep ==
    \E id \in KnownPostIds, c \in ContentPieces : PostSetContentPiecesCall(id, c)

PostUpsertStep ==
    \E data \in PostDatas, mode \in Modes, id \in ProvidedPostIds : PostUpsert(data, mode, id)
PostSetContentPiecesStep ==
    \E id \in KnownPostIds, c \in ContentPieces : PostSetContentPieces(id, c)

(***************************************************************************)
(* Initial state and specifications                                        *)
(***************************************************************************)
Init ==
    /\ userHash = [k \in UserKeys |-> EmptyHash]
    /\ emailIndex = [k \in {} |-> Null]
    /\ nextUser = 1
    /\ subHash = [k \in SubKeys |-> EmptyHash]
    /\ subUserIndex = [k \in {} |-> Null]
    /\ nextSub = 1
    /\ custHash = [k \in CustKeys |-> EmptyHash]
    /\ custPerms = [k \in CustKeys |-> EmptyHash]
    /\ userCustomers = [u \in CustUsers |-> [c \in {} |-> 0]]
    /\ nextCust = 1
    /\ projHash = [k \in ProjKeys |-> EmptyHash]
    /\ nextProj = 1
    /\ custProjects = [c \in CustomerIds |-> {}]
    /\ projConversations = [k \in ProjKeys |-> {}]
    /\ projPosts = [k \in ProjKeys |-> {}]
    /\ convHash = [k \in ConvKeys |-> EmptyHash]
    /\ nextConv = 1
    /\ convMessages = [k \in ConvKeys |-> <<>>]
    /\ convPosts = [k \in ConvKeys |-> {}]
    /\ postHash = [k \in PostKeys |-> EmptyHash]
    /\ nextPost = 1
    /\ updCall = [pc |-> "idle"]
    /\ setCall = [pc |-> "idle"]
    /\ calls = [c \in Callers |-> [pc |-> "idle"]]
    /\ last = [op |-> "init", ok |-> TRUE]

\* The three repositories write disjoint keys (proj:, conv:, post:), so a run
\* exercises one of them: a step of one repository is taken while the other
\* two still hold nothing.
ProjUntouched == nextProj = 1 /\ \A k \in ProjKeys : ~Exists(projHash[k])
ConvUntouched ==
    nextConv = 1 /\ \A k \in ConvKeys : ~Exists(convHash[k]) /\ convMessages[k] = <<>> /\ convPosts[k] = {}
PostUntouched == nextPost = 1 /\ \A k \in PostKeys : ~Exists(postHash[k])

\* Conversations occupy disjoint keys (conv:<id>, conv:<id>:messages,
\* conv:<id>:posts), so a run exercises one conversation at a time: a step is
\* taken when at most one conversation id holds anything afterwards.
ConvInUse(k) == Exists(convHash[k]) \/ convMessages[k] # <<>> \/ convPosts[k] # {}
OneConversation == Cardinality({k \in ConvKeys : ConvInUse(k)}) <= 1

(***************************************************************************)
(* Properties                                                              *)
(***************************************************************************)
StoredUsers == {u \in UserKeys : UserGetById(userHash, u) # NoUser}

\* C1: in every state reached by calls that ran one after the other, each to
\* completion, no two user records retrievable by getById have emails that are
\* equal when lower-cased.
C1_EmailsUnique ==
    AllIdle =>
        \A u1 \in StoredUsers, u2 \in StoredUsers :
            u1 # u2 => toLowerCase(UserGetById(userHash, u1).email)
                       # toLowerCase(UserGetById(userHash, u2).email)

\* the step is a create whose email equals, ignoring case, that of a stored user
CreateOfTakenEmail ==
    /\ last'.op = "user.upsert" /\ last'.mode = "create"
    /\ \E u \in StoredUsers :
          toLowerCase(UserGetById(userHash, u).email) = toLowerCase(last'.email)

\* the step is an update that sets the email to one indexed to a different user
UpdateToIndexedEmail ==
    /\ last'.op = "user.update" /\ last'.email # {}
    /\ Get(emailIndex, getEmailIndexKey(The(last'.email))) \notin {Null, last'.id}

\* C4: a create of a taken email and an update to an email indexed to a
\* different user both fail and leave every user record and every index entry
\* unchanged.
C4_ConflictsFailUnchanged ==
    [][(CreateOfTakenEmail \/ UpdateToIndexedEmail)
        => (~last'.ok /\ userHash' = userHash /\ emailIndex' = emailIndex)]_vars

\* C5: in every state reached by calls that ran one after the other, each to
\* completion, findByEmail(e) returns user u exactly when u is a stored user
\* whose email equals e ignoring case; after an update that changes the email
\* from e1 to e2, findByEmail(e2) returns u and findByEmail(e1) returns null.
C5_FindByEmailExact ==
    /\ AllIdle =>
          \A e \in Emails, u \in UserKeys :
             (UserFindByEmail(userHash, emailIndex, e).id = u)
             <=> (u \in StoredUsers
                  /\ toLowerCase(UserGetById(userHash, u).email) = toLowerCase(e))
    /\ (last.op = "user.update" /\ last.ok /\ last.email # {} /\ last.email # {last.oldEmail})
          => /\ UserFindByEmail(userHash, emailIndex, The(last.email)).id = last.id
             /\ toLowerCase(The(last.email)) # toLowerCase(last.oldEmail)
                   => UserFindByEmail(userHash, emailIndex, last.oldEmail) = NoUser

StoredSubscriptions == {k \in SubKeys : SubGetById(subHash, k) # NoSubscription}

\* C3: in every state reached by calls that ran one after the other, each to
\* completion, at most one stored subscription record has any given userId.
C3_OneSubscriptionPerUser ==
    AllIdle =>
        \A s1 \in StoredSubscriptions, s2 \in StoredSubscriptions :
            s1 # s2 => subHash[s1].userId # subHash[s2].userId

ExistingCustomers == {c \in CustKeys : Exists(custHash[c])}

Owners(c) == {u \in DOMAIN CustGetPermissions(custPerms, c) : custPerms[c][u] = "owner"}

\* C2: in every state reached by calls that ran one after the other, each to
\* completion, each existing customer's permission map has exactly one entry
\* with role 'owner', and that entry's user id is the customer's stored
\* ownerUserId.
C2_ExactlyOneOwner ==
    AllIdle =>
        \A c \in ExistingCustomers :
            /\ "ownerUserId" \in DOMAIN custHash[c]
            /\ Owners(c) = {custHash[c].ownerUserId}

\* the last operation was setOwner(C, B) on a customer owned by A, A # B
OwnershipTransferred ==
    /\ last.op = "cust.setOwner"
    /\ last.prevOwner # JsNull
    /\ last.prevOwner # last.userId

\* C6: after setOwner(C, B) on a customer owned by A # B, the stored
\* ownerUserId is B, B's permission is 'owner' and A has no 'owner' permission.
C6_OwnershipTransfer ==
    OwnershipTransferred =>
        /\ custHash[last.id].ownerUserId = last.userId
        /\ last.userId \in Owners(last.id)
        /\ last.prevOwner \notin Owners(last.id)

\* C7: setOwner(C, A) when A already owns C leaves A's 'owner' permission
\* entry and A's role-index entry for C in place.
C7_SetOwnerSameOwnerKeeps ==
    (last.op = "cust.setOwner" /\ last.prevOwner = last.userId) =>
        /\ last.userId \in Owners(last.id)
        /\ [customerId |-> last.id, role |-> "owner"] \in ListUserCustomers(userCustomers, last.userId)

\* C8: removePermission(C, u) with u the owner of C changes nothing: u's
\* permission is still 'owner' and C is still among u's accessible customers.
C8_OwnerRemovalGuard ==
    (last.op = "cust.removePermission" /\ last.wasOwner) =>
        /\ last.userId \in Owners(last.id)
        /\ last.id \in {a.customerId : a \in ListUserCustomers(userCustomers, last.userId)}

\* C9: in every state reached by calls that ran one after the other, each to
\* completion, listUserCustomers(u) contains (C, r) exactly when C's
\* permission map maps u to r, and the stored score is the role's priority
\* (4, 3, 2, 1).
C9_IndexMatchesPermissions ==
    AllIdle =>
        \A u \in CustUsers, c \in CustKeys, r \in Roles :
            LET granted == u \in DOMAIN CustGetPermissions(custPerms, c) /\ custPerms[c][u] = r IN
            /\ ([customerId |-> c, role |-> r] \in ListUserCustomers(userCustomers, u)) <=> granted
            /\ granted => userCustomers[u][c] = ROLE_PRIORITY[r]
            /\ (c \in DOMAIN userCustomers[u] /\ userCustomers[u][c] = ROLE_PRIORITY[r]) => granted

C9_Witness ==
    /\ AllIdle
    /\ last.op = "cust.removePermission" /\ last.had
    /\ \E other \in CustKeys \ {last.id} :
          /\ ListUserCustomers(userCustomers, last.userId) = {[customerId |-> other, role |-> "viewer"]}
          /\ last.userId \notin DOMAIN custPerms[last.id]
          /\ \E u \in CustUsers \ {last.userId} :
                ListUserCustomers(userCustomers, u) =
                    {[customerId |-> last.id, role |-> "owner"], [customerId |-> other, role |-> "owner"]}

\* the step is an upsert in mode 'create' with a supplied id whose key exists
CreateOfExisting(op, hashes) ==
    /\ last'.op = op /\ last'.mode = "create"
    /\ last'.provided \notin {{}, {EmptyId}}
    /\ Exists(hashes[The(last'.provided)])

\* the step is an upsert in mode 'update' with no id or an id whose key is missing
UpdateOfMissing(op, hashes) ==
    /\ last'.op = op /\ last'.mode = "update"
    /\ \/ last'.provided \in {{}, {EmptyId}}
       \/ ~Exists(hashes[The(last'.provided)])

\* C10: for Project, Conversation and Post upsert, 'create' with a supplied id
\* that already exists fails and leaves the stored record unchanged; 'update'
\* with an id that does not exist (or no id) fails and creates no key.
C10_UpsertModeChecks ==
    [][/\ (CreateOfExisting("proj.upsert", projHash) \/ UpdateOfMissing("proj.upsert", projHash))
            => (~last'.ok /\ projHash' = projHash)
       /\ (CreateOfExisting("conv.upsert", convHash) \/ UpdateOfMissing("conv.upsert", convHash))
            => (~last'.ok /\ convHash' = convHash)
       /\ (CreateOfExisting("post.upsert", postHash) \/ UpdateOfMissing("post.upsert", postHash))
            => (~last'.ok /\ postHash' = postHash)]_vars

C10_Witness ==
    /\ last.op = "post.upsert" /\ ~last.ok /\ last.error = "already-exists"
    /\ last.provided # {CallerId}
    /\ Exists(postHash[The(last.provided)])

\* C11: an upsert called without mode 'create' or 'update' fails and writes
\* nothing; no upsert decides between creating a record and overwriting one
\* by probing the store.
C11_ExplicitModeRequired ==
    [][/\ (last'.op = "user.upsert" /\ last'.mode = "none")
            => (~last'.ok /\ userHash' = userHash /\ emailIndex' = emailIndex)
       /\ (last'.op = "proj.upsert" /\ last'.mode = "none") => (~last'.ok /\ projHash' = projHash)
       /\ (last'.op = "conv.upsert" /\ last'.mode = "none") => (~last'.ok /\ convHash' = convHash)
       /\ (last'.op = "post.upsert" /\ last'.mode = "none") => (~last'.ok /\ postHash' = postHash)]_vars

\* C12: for User, Customer, Project, Conversation and Post, getById of the id
\* that create(data) returned, read right after the create, equals the record
\* that create returned.
C12_CreateThenGetById ==
    [][/\ \A data \in UserDatas :
             (last'.op = "user.upsert" /\ last'.ok /\ UserUpsert(data, "create"))
                => UserGetById(userHash', last'.id) = UserUpsertReturn(data, last'.id)
       /\ \A data \in CustomerDatas :
             (last'.op = "cust.create" /\ CustCreate(data))
                => CustGetById(custHash', custPerms', last'.id) = CustCreateReturn(data, last'.id)
       /\ \A data \in ProjectDatas :
             (last'.op = "proj.upsert" /\ last'.ok /\ ProjUpsert(data, "create", {}))
                => ProjGetById(projHash', last'.id) = ProjUpsertReturn(data, last'.id)
       /\ \A data \in ConversationDatas :
             (last'.op = "conv.upsert" /\ last'.ok /\ ConvUpsert(data, "create", {}))
                => ConvGetById(convHash', last'.id) = ConvUpsertReturn(data, last'.id)
       /\ \A data \in PostDatas :
             (last'.op = "post.upsert" /\ last'.ok /\ PostUpsert(data, "create", {}))
                => PostGetById(postHash', last'.id) = PostUpsertReturn(data, last'.id)]_vars

\* the messages that were added to a conversation: the entries of its list,
\* each parsed
StoredMessages(c) == [i \in 1..Len(convMessages[c]) |-> JSONparse(convMessages[c][i])]

IsPrefix(a, b) == Len(a) <= Len(b) /\ SubSeq(b, 1, Len(a)) = a

\* the step is delete(c) made in one step, or a command of a delete(c) call
DeleteStep(c) ==
    \/ last'.op = "conv.delete" /\ last'.id = c
    \/ /\ last'.op = "command"
       /\ calls[last'.caller].pc = "exec"
       /\ calls[last'.caller].op = "conv.delete"
       /\ calls[last'.caller].id = c

\* C13: getMessages returns exactly the added messages in the order their
\* addMessage calls completed: an addMessage appends its message (with its
\* timestamp assigned) to what getMessages returned before, no other step but
\* a step of the delete of the conversation changes the result, and the result
\* before a step is a prefix of the result after it unless the conversation is
\* being deleted.
C13_MessagesAppendOnly ==
    [][\A c \in ConvKeys :
          LET before == GetMessages(convMessages, c, 0, -1)
              after == GetMessages(convMessages', c, 0, -1)
              deleted == DeleteStep(c)
              added == last'.op = "conv.addMessage" /\ last'.id = c
          IN /\ before.ok /\ after.ok
             /\ \A m \in Messages :
                   (last'.op = "conv.addMessage" /\ ConvAddMessage(c, m))
                      => after.value = Append(before.value, MessageWithTimestamp(m))
             /\ (~added /\ ~deleted) => after.value = before.value
             /\ ~deleted => IsPrefix(before.value, after.value)]_vars

\* C14: for a conversation holding n messages and a count >= 1,
\* getRecentMessages(count) returns the last min(count, n) messages in append
\* order.
C14_RecentMessages ==
    \A c \in ConvKeys, count \in 1..MaxCount :
        LET n == Len(convMessages[c])
            k == IF count < n THEN count ELSE n
            recent == GetRecentMessages(convMessages, c, count)
        IN recent.ok /\ recent.value = SubSeq(StoredMessages(c), n - k + 1, n)

\* C15: for any conversation and any count <= 0, getRecentMessages(count)
\* returns an empty sequence without error.
C15_NonPositiveCountEmpty ==
    \A c \in ConvKeys, count \in (0 - MaxCount)..0 :
        LET recent == GetRecentMessages(convMessages, c, count) IN
        recent.ok /\ recent.value = <<>>

\* the entries of a list that are valid serialized messages, in list order
ValidEntries(list) == SelectSeq(list, IsJSON)

\* C16: getMessages on a list that contains a malformed entry does not fail:
\* it returns the valid entries, parsed, in list order.
C16_MalformedSkipped ==
    \A c \in ConvKeys :
        LET valid == ValidEntries(convMessages[c])
            r == GetMessages(convMessages, c, 0, -1)
        IN (\E i \in 1..Len(convMessages[c]) : ~IsJSON(convMessages[c][i]))
              => r.ok /\ r.value = [i \in 1..Len(valid) |-> JSONparse(valid[i])]

\* C19: Conversation.update(id, partial) returns a record in which every
\* field supplied in partial (title, projectId) has the supplied value and
\* every other field keeps its stored value, and getMetadataById(id) right
\* after the update returns that record.
C19_ConversationUpdate ==
    [][\A c \in ConvKeys, data \in PartialConversationDatas :
          (last'.op = "conv.update" /\ last'.ok /\ ConvUpdate(c, data)) =>
             LET stored == ConvGetById(convHash, c)
                 returned == ConvUpdateReturn(convHash, c, data)
             IN /\ \A f \in {"title", "projectId"} :
                      returned[f] = IF f \in DOMAIN data THEN data[f] ELSE stored[f]
                /\ ConvGetById(convHash', c) = returned]_vars

\* the user hash has no subscriptionId field, and getById reports null for it
NoSubscriptionIdStored(hashes, u) ==
    /\ "subscriptionId" \notin DOMAIN hashes[u]
    /\ UserGetById(hashes, u) # NoUser => UserGetById(hashes, u).subscriptionId = JsNull

\* C18: after a User write in which subscriptionId is null or omitted
\* (create, upsert, update with subscriptionId null, setSubscriptionId(null)),
\* the stored user hash contains no subscriptionId field and getById reports
\* subscriptionId as null.
C18_NullSubscriptionIdRemoved ==
    [][/\ \A data \in UserDatas, mode \in {"create", "update", "none"} :
             (last'.op = "user.upsert" /\ last'.ok /\ data.subscriptionId = JsNull
              /\ UserUpsert(data, mode))
                => NoSubscriptionIdStored(userHash', last'.id)
       /\ \A u \in UserKeys, data \in PartialUserDatas :
             (last'.op = "user.update" /\ last'.ok /\ "subscriptionId" \in DOMAIN data
              /\ data.subscriptionId = JsNull /\ UserUpdate(u, data))
                => NoSubscriptionIdStored(userHash', u)
       /\ \A u \in UserKeys :
             (last'.op = "user.setSubscriptionId" /\ UserSetSubscriptionId(u, JsNull))
                => NoSubscriptionIdStored(userHash', u)]_vars

\* the step is operation op on an id whose main key does not exist
OnMissing(op, hashes) == last'.op = op /\ ~Exists(hashes[last'.id])

\* C20: an operation that modifies an existing entity addressed by id
\* (update, Subscription.update, setCustomer, setProject, setContentPieces,
\* updateAiContext, setSubscriptionId) fails when no record with that id
\* exists, and brings no key into existence.
C20_ModifyMissingFails ==
    [][/\ (OnMissing("user.update", userHash) \/ OnMissing("user.setSubscriptionId", userHash))
            => (~last'.ok /\ userHash' = userHash)
       /\ OnMissing("sub.update", subHash) => (~last'.ok /\ subHash' = subHash)
       /\ (OnMissing("proj.setCustomer", projHash) \/ OnMissing("proj.updateAiContext", projHash))
            => (~last'.ok /\ projHash' = projHash)
       /\ (OnMissing("conv.update", convHash) \/ OnMissing("conv.setProject", convHash))
            => (~last'.ok /\ convHash' = convHash)
       /\ OnMissing("post.setContentPieces", postHash) => (~last'.ok /\ postHash' = postHash)]_vars

\* C17: Post.update never changes the stored contentPieces: whatever the
\* interleaving of its store commands with a concurrent setContentPieces(id, c),
\* once both calls have completed the stored contentPieces is c.
C17_UpdateKeepsContentPieces ==
    (updCall.pc = "done" /\ setCall.pc = "done" /\ updCall.id = setCall.id)
        => PostGetById(postHash, setCall.id).contentPieces = setCall.content

\* C21: after delete(s) completes for a subscription s created for user u
\* (create is the only writer of the index entry u -> s), findByUserId(u)
\* returns null and a following create for u passes its index check, whatever
\* update and setUserId calls were applied to s before.
C21_DeleteFreesUser ==
    [][\A u \in SubUserIds :
          (last'.op = "sub.delete" /\ last'.ok /\ Get(subUserIndex, u) = last'.id)
             => /\ SubFindByUserId(subHash', subUserIndex', u) = NoSubscription
                /\ Get(subUserIndex', u) = Null]_vars

(***************************************************************************)
(* Users and subscriptions side by side: the two repositories share the    *)
(* store, each under its own key prefixes (user:, user_email:,             *)
(* subscription:, sub_user:).                                              *)
(***************************************************************************)
\* C22: a delete(u) that succeeds empties u's primary record and removes the
\* email-index entry of u's stored email, and nothing else: afterwards getById(u)
\* and findByEmail(email) return null, a create with that email passes its index
\* check, every other user record and index entry is as before, and every
\* subscription record and subscription index entry is unchanged.
C22_DeleteRemovesOnlyUser ==
    [][(last'.op = "user.delete" /\ last'.ok) =>
          LET u == last'.id
              email == last'.email
              emailIndexKey == getEmailIndexKey(email)
          IN
          /\ userHash'[u] = EmptyHash
          /\ UserGetById(userHash', u) = NoUser
          /\ UserFindByEmail(userHash', emailIndex', email) = NoUser
          /\ ~UpsertRejects("create", Get(emailIndex', emailIndexKey))
          /\ \A v \in UserKeys \ {u} : userHash'[v] = userHash[v]
          /\ DOMAIN emailIndex' = DOMAIN emailIndex \ {emailIndexKey}
          /\ \A k \in DOMAIN emailIndex' : emailIndex'[k] = emailIndex[k]
          /\ subHash' = subHash
          /\ subUserIndex' = subUserIndex]_vars

\* a user was deleted while another user and a subscription are stored
C22_Witness ==
    /\ last.op = "user.delete"
    /\ last.ok
    /\ \E v \in UserKeys : Exists(userHash[v])
    /\ \E s \in SubKeys : Exists(subHash[s])
    /\ DOMAIN subUserIndex # {}
    /\ DOMAIN emailIndex # {}

(***************************************************************************)
(* Key naming (redisKeys.ts).  Keys, ids and namespaces are sequences of   *)
(* character codes, so that joining with the separator is computed.        *)
(***************************************************************************)
MaxIdPieces == 3

\* ":"
separator == <<58>>

\* "" (the constructor's default) and "ns"
Namespaces == {<<>>, <<110, 115>>}

\* what a caller-supplied id is made of: "x", ":" and "projects"
IdPieces == {<<120>>, separator, <<112, 114, 111, 106, 101, 99, 116, 115>>}

RECURSIVE Concat(_)
Concat(pieces) == IF pieces = <<>> THEN <<>> ELSE Head(pieces) \o Concat(Tail(pieces))

\* the non-empty ids of at most MaxIdPieces pieces
KeyIds == {Concat(p) : p \in UNION {[1..n -> IdPieces] : n \in 1..MaxIdPieces}}

\* Array.prototype.join
RECURSIVE JoinWith(_, _)
JoinWith(parts, sep) ==
    IF parts = <<>> THEN <<>>
    ELSE IF Len(parts) = 1 THEN parts[1]
    ELSE parts[1] \o sep \o JoinWith(Tail(parts), sep)

\* Boolean(string): the empty string is falsy
Boolean(s) == s # <<>>

\* [this.namespace, ...parts].filter(Boolean).join(this.separator)
join(namespace, parts) == JoinWith(SelectSeq(<<namespace>> \o parts, Boolean), separator)

\* the key-naming methods: the entity kind and, for a related key, the relation name
KeyMethods ==
    {"customer",
     "project",
     "conversation",
     "post",
     "user",
     "subscription",
     "customerPermissions",
     "customerProjects",
     "userCustomers",
     "projectConversations",
     "projectPosts",
     "conversationPosts",
     "postConversations",
     "postMediaLinks",
     "userSubscription"}

KeyParts ==
    ("customer" :> [kind |-> <<99, 117, 115, 116>>, relation |-> <<>>]) @@
    ("project" :> [kind |-> <<112, 114, 111, 106>>, relation |-> <<>>]) @@
    ("conversation" :> [kind |-> <<99, 111, 110, 118>>, relation |-> <<>>]) @@
    ("post" :> [kind |-> <<112, 111, 115, 116>>, relation |-> <<>>]) @@
    ("user" :> [kind |-> <<117, 115, 101, 114>>, relation |-> <<>>]) @@
    ("subscription" :> [kind |-> <<115, 117, 98>>, relation |-> <<>>]) @@
    ("customerPermissions" :> [kind |-> <<99, 117, 115, 116>>, relation |-> <<112, 101, 114, 109, 105, 115, 115, 105, 111, 110, 115>>]) @@
    ("customerProjects" :> [kind |-> <<99, 117, 115, 116>>, relation |-> <<112, 114, 111, 106, 101, 99, 116, 115>>]) @@
    ("userCustomers" :> [kind |-> <<117, 115, 101, 114>>, relation |-> <<99, 117, 115, 116, 111, 109, 101, 114, 115>>]) @@
    ("projectConversations" :> [kind |-> <<112, 114, 111, 106>>, relation |-> <<99, 111, 110, 118, 101, 114, 115, 97, 116, 105, 111, 110, 115>>]) @@
    ("projectPosts" :> [kind |-> <<112, 114, 111, 106>>, relation |-> <<112, 111, 115, 116, 115>>]) @@
    ("conversationPosts" :> [kind |-> <<99, 111, 110, 118>>, relation |-> <<112, 111, 115, 116, 115>>]) @@
    ("postConversations" :> [kind |-> <<112, 111, 115, 116>>, relation |-> <<99, 111, 110, 118, 101, 114, 115, 97, 116, 105, 111, 110, 115>>]) @@
    ("postMediaLinks" :> [kind |-> <<112, 111, 115, 116>>, relation |-> <<109, 101, 100, 105, 97>>]) @@
    ("userSubscription" :> [kind |-> <<117, 115, 101, 114>>, relation |-> <<115, 117, 98, 115, 99, 114, 105, 112, 116, 105, 111, 110>>])

\* the key a method makes for an id
KeyOf(namespace, method, id) ==
    LET p == KeyParts[method] IN
    join(namespace, IF p.relation = <<>> THEN <<p.kind, id>> ELSE <<p.kind, id, p.relation>>)

\* one use of the key functions: two (method, id) inputs under one namespace
KeysStep ==
    /\ last.op = "init"
    /\ \E namespace \in Namespaces, m1 \in KeyMethods, m2 \in KeyMethods, id1 \in KeyIds, id2 \in KeyIds :
          last' = [op |-> "keys", ok |-> TRUE, namespace |-> namespace,
                   a |-> [method |-> m1, id |-> id1], b |-> [method |-> m2, id |-> id2],
                   keyA |-> KeyOf(namespace, m1, id1), keyB |-> KeyOf(namespace, m2, id2)]
    /\ UNCHANGED <<userVars, subVars, custVars, projVars, convVars, postVars, callVars>>

KeysNext == KeysStep

SpecKeys == Init /\ [][KeysNext]_vars

\* C23: under one namespace, two different (method, id) inputs with non-empty
\* ids, ids that contain the separator included, get different keys.
C23_KeysInjective ==
    last.op = "keys" => (last.a # last.b => last.keyA # last.keyB)

(***************************************************************************)
(* Concurrent User.create calls (redisUserRepository.ts, upsert): each     *)
(* caller's call is its awaited reads followed by its store commands, and  *)
(* the commands of the callers interleave.  The client's pipeline() sends  *)
(* the queued commands as one batch that the store runs in order but not   *)
(* as a transaction, so commands of other callers can fall between two     *)
(* commands of a batch.                                                    *)
(***************************************************************************)
\* the effect of one store command on the keys of the record id: user:<id>
\* and user_email:<key>, sub:<id> and sub_user:<userId>, cust:<id>,
\* cust:<id>:permissions, cust:<id>:projects and the users' sorted sets,
\* proj:<id> with its two sets, conv:<id> with its list and set, post:<id>
PipelineApply(id, c) ==
    /\ userHash' =
          CASE c.key = "user" /\ c.cmd = "hset" -> [userHash EXCEPT ![id] = HSet(@, c.value)]
            [] c.key = "user" /\ c.cmd = "hdel" -> [userHash EXCEPT ![id] = HDel(@, c.field)]
            [] c.key = "user" /\ c.cmd = "del" -> [userHash EXCEPT ![id] = EmptyHash]
            [] OTHER -> userHash
    /\ emailIndex' =
          CASE c.key = "user_email" /\ c.cmd = "set" -> Set(emailIndex, c.field, c.value)
            [] c.key = "user_email" /\ c.cmd = "del" -> Del(emailIndex, c.field)
            [] OTHER -> emailIndex
    /\ subHash' =
          CASE c.key = "sub" /\ c.cmd = "hset" -> [subHash EXCEPT ![id] = HSet(@, c.value)]
            [] c.key = "sub" /\ c.cmd = "del" -> [subHash EXCEPT ![id] = EmptyHash]
            [] OTHER -> subHash
    /\ subUserIndex' =
          CASE c.key = "sub_user" /\ c.cmd = "set" -> Set(subUserIndex, c.field, c.value)
            [] c.key = "sub_user" /\ c.cmd = "del" -> Del(subUserIndex, c.field)
            [] OTHER -> subUserIndex
    /\ custHash' =
          CASE c.key = "main" /\ c.cmd = "hset" -> [custHash EXCEPT ![id] = HSet(@, c.value)]
            [] c.key = "main" /\ c.cmd = "del" -> [custHash EXCEPT ![id] = EmptyHash]
            [] OTHER -> custHash
    /\ custPerms' =
          CASE c.key = "permissions" /\ c.cmd = "hset" -> [custPerms EXCEPT ![id] = HSet(@, c.value)]
            [] c.key = "permissions" /\ c.cmd = "hdel" -> [custPerms EXCEPT ![id] = HDel(@, c.field)]
            [] c.key = "permissions" /\ c.cmd = "del" -> [custPerms EXCEPT ![id] = EmptyHash]
            [] OTHER -> custPerms
    /\ custProjects' =
          CASE c.key = "projects" /\ c.cmd = "del" -> [custProjects EXCEPT ![id] = {}]
            [] OTHER -> custProjects
    /\ userCustomers' =
          CASE c.cmd = "zadd" -> [userCustomers EXCEPT ![c.key] = ZAdd(@, id, c.value)]
            [] c.cmd = "zrem" -> [userCustomers EXCEPT ![c.key] = ZRem(@, id)]
            [] OTHER -> userCustomers
    /\ projHash' =
          CASE c.key = "proj" /\ c.cmd = "hset" -> [projHash EXCEPT ![id] = HSet(@, c.value)]
            [] c.key = "proj" /\ c.cmd = "del" -> [projHash EXCEPT ![id] = EmptyHash]
            [] OTHER -> projHash
    /\ projConversations' =
          CASE c.key = "proj_conversations" /\ c.cmd = "del" -> [projConversations EXCEPT ![id] = {}]
            [] c.key = "proj_conversations" /\ c.cmd = "sadd" ->
                  [projConversations EXCEPT ![c.field] = @ \cup {c.value}]
            [] OTHER -> projConversations
    /\ projPosts' =
          CASE c.key = "proj_posts" /\ c.cmd = "del" -> [projPosts EXCEPT ![id] = {}]
            [] OTHER -> projPosts
    /\ convHash' =
          CASE c.key = "conv" /\ c.cmd = "hset" -> [convHash EXCEPT ![id] = HSet(@, c.value)]
            [] c.key = "conv" /\ c.cmd = "del" -> [convHash EXCEPT ![id] = EmptyHash]
            [] OTHER -> convHash
    /\ convMessages' =
          CASE c.key = "conv_messages" /\ c.cmd = "del" -> [convMessages EXCEPT ![id] = <<>>]
            [] OTHER -> convMessages
    /\ convPosts' =
          CASE c.key = "conv_posts" /\ c.cmd = "del" -> [convPosts EXCEPT ![id] = {}]
            [] OTHER -> convPosts
    /\ postHash' =
          CASE c.key = "post" /\ c.cmd = "hset" -> [postHash EXCEPT ![id] = HSet(@, c.value)]
            [] c.key = "post" /\ c.cmd = "hdel" -> [postHash EXCEPT ![id] = HDel(@, c.field)]
            [] OTHER -> postHash
    /\ UNCHANGED <<nextUser, nextSub, nextCust, nextProj, nextConv, nextPost>>

\* a call that has queued its pipeline and awaits pipe.exec(), which throws
\* when no command was queued
Queued(op, id, pipe, info) ==
    [pc |-> IF pipe = <<>> THEN "failed" ELSE "exec", op |-> op, id |-> id, pipe |-> pipe,
     info |-> info, sent |-> FALSE, before |-> {}]

\* the store runs the next command of caller c's batch; `before` keeps the
\* callers whose calls had completed when the first command of the batch ran
PipelineCommand(c) ==
    LET call == calls[c]
        rest == Tail(call.pipe)
    IN
    /\ call.pc = "exec"
    /\ PipelineApply(call.id, Head(call.pipe))
    /\ calls' = [calls EXCEPT ![c] =
                    [call EXCEPT !.pipe = rest,
                                 !.pc = IF rest = <<>> THEN "done" ELSE "exec",
                                 !.sent = TRUE,
                                 !.before = IF call.sent THEN @
                                            ELSE {d \in Callers \ {c} : calls[d].pc = "done"}]]

\* the call of caller c returns or throws to its caller, who can then make
\* another call
CallReturn(c) ==
    /\ calls[c].pc \in {"done", "failed"}
    /\ calls' = [calls EXCEPT ![c] = [pc |-> "returned"]]
    /\ UNCHANGED storeVars

\* upsert, first command: GET of the index key, then the two throws and uuidv4()
UpsertGet(c, data, mode) ==
    LET emailIndexKey == getEmailIndexKey(data.email)
        existingUserId == Get(emailIndex, emailIndexKey)
        userId == IF existingUserId # Null THEN existingUserId ELSE nextUser
    IN
    /\ Ready(c)
    /\ IF UpsertRejects(mode, existingUserId)
       THEN /\ calls' = [calls EXCEPT ![c] = [pc |-> "failed", op |-> "user.upsert", data |-> data]]
            /\ UNCHANGED nextUser
       ELSE /\ userId <= MaxUsers
            /\ calls' = [calls EXCEPT ![c] =
                            [pc |-> "got", op |-> "user.upsert", data |-> data, userId |-> userId]]
            /\ nextUser' = IF existingUserId # Null THEN nextUser ELSE nextUser + 1
    /\ UNCHANGED <<userHash, emailIndex>>

\* upsert, second command: HSET of the user hash
UpsertHSet(c) ==
    /\ calls[c].pc = "got"
    /\ calls[c].op = "user.upsert"
    /\ userHash' = [userHash EXCEPT ![calls[c].userId] = HSet(@, UpsertHash(calls[c].data))]
    /\ calls' = [calls EXCEPT ![c].pc = "written"]
    /\ UNCHANGED <<emailIndex, nextUser>>

\* upsert, third command: SET of the index key; the call returns the user
UpsertSetIndex(c) ==
    /\ calls[c].pc = "written"
    /\ emailIndex' = Set(emailIndex, getEmailIndexKey(calls[c].data.email), calls[c].userId)
    /\ calls' = [calls EXCEPT ![c].pc = "done"]
    /\ UNCHANGED <<userHash, nextUser>>

\* update, first read: getById; a missing user ends the call, and without an
\* email change the pipeline goes to pipe.exec()
UserUpdateGetById(c, userId, data) ==
    LET currentUser == UserGetById(userHash, userId) IN
    /\ Ready(c)
    /\ calls' = [calls EXCEPT ![c] =
                    IF currentUser = NoUser
                    THEN [pc |-> "failed", op |-> "user.update", id |-> userId, data |-> data]
                    ELSE IF EmailChanges(data, currentUser)
                    THEN [pc |-> "got", op |-> "user.update", id |-> userId, data |-> data,
                          currentUser |-> currentUser]
                    ELSE Queued("user.update", userId, UpdatePipeline(userId, data, currentUser),
                                [data |-> data])]
    /\ UNCHANGED userVars

\* update, second read: GET of the new index key; an email in use by another
\* user ends the call, else the pipeline goes to pipe.exec()
UserUpdateGet(c) ==
    LET call == calls[c]
        existingUserCheck == Get(emailIndex, getEmailIndexKey(call.data.email))
    IN
    /\ call.pc = "got"
    /\ call.op = "user.update"
    /\ calls' = [calls EXCEPT ![c] =
                    IF EmailInUse(existingUserCheck, call.id)
                    THEN [pc |-> "failed", op |-> "user.update", id |-> call.id, data |-> call.data]
                    ELSE Queued("user.update", call.id,
                                UpdatePipeline(call.id, call.data, call.currentUser),
                                [data |-> call.data])]
    /\ UNCHANGED userVars

\* delete, first read: getById; a missing user ends the call, else the two
\* DELs are queued
UserDeleteGetById(c, userId) ==
    LET user == UserGetById(userHash, userId) IN
    /\ Ready(c)
    /\ calls' = [calls EXCEPT ![c] =
                    IF user = NoUser
                    THEN [pc |-> "failed", op |-> "user.delete", id |-> userId]
                    ELSE Queued("user.delete", userId,
                                <<Cmd("del", "user", "", ""),
                                  Cmd("del", "user_email", getEmailIndexKey(user.email), "")>>,
                                [email |-> user.email])]
    /\ UNCHANGED userVars

\* the inputs of the concurrent calls
RaceUserDatas == {data \in UserDatas : data.name = "n1" /\ data.subscriptionId = JsNull}
RacePartialUserDatas == {data \in PartialUserDatas : DOMAIN data \subseteq {"name", "email"}}

UserRaceNext ==
    /\ \/ /\ \E data \in RaceUserDatas : UserUpsert(data, "create")
          /\ UNCHANGED calls
       \/ /\ \/ \E c \in Callers, data \in RaceUserDatas : UpsertGet(c, data, "create")
             \/ \E c \in Callers : UpsertHSet(c)
             \/ \E c \in Callers : UpsertSetIndex(c)
             \/ \E c \in Callers, userId \in KnownUserIds, data \in RacePartialUserDatas :
                   UserUpdateGetById(c, userId, data)
             \/ \E c \in Callers : UserUpdateGet(c)
             \/ \E c \in Callers, userId \in KnownUserIds : UserDeleteGetById(c, userId)
             \/ \E c \in Callers : PipelineCommand(c)
          /\ UNCHANGED last
    /\ UNCHANGED <<subVars, custVars, projVars, convVars, postVars, updCall, setCall>>

SpecUserRace == Init /\ [][UserRaceNext]_vars

\* the call of caller c has returned or thrown
Finished(c) == calls[c].pc \in {"done", "failed"}

\* the stored users whose email equals `email` ignoring case
UsersWithEmail(email) ==
    {u \in UserKeys : /\ UserGetById(userHash, u) # NoUser
                      /\ toLowerCase(UserGetById(userHash, u).email) = toLowerCase(email)}

\* C24: once two concurrent create calls for emails that are equal ignoring
\* case have both finished, whatever the interleaving of their commands, at most
\* one of them has succeeded and exactly one user record has that email.
C24_ConcurrentCreates ==
    (/\ Finished(1)
     /\ Finished(2)
     /\ calls[1].op = "user.upsert"
     /\ calls[2].op = "user.upsert"
     /\ toLowerCase(calls[1].data.email) = toLowerCase(calls[2].data.email))
        => /\ ~(calls[1].pc = "done" /\ calls[2].pc = "done")
           /\ Cardinality(UsersWithEmail(calls[1].data.email)) = 1

(***************************************************************************)
(* Concurrent calls on the Subscription repository: create and delete are  *)
(* an awaited read followed by a pipeline of two commands; setUserId and   *)
(* update are one command each.                                            *)
(***************************************************************************)
\* create, first command: GET of the user index, then the throw and uuidv4();
\* the HSET and the SET are queued
SubCreateGet(c, data) ==
    LET existingSubId == Get(subUserIndex, data.userId) IN
    /\ Ready(c)
    /\ IF existingSubId # Null
       THEN /\ calls' = [calls EXCEPT ![c] =
                            [pc |-> "failed", op |-> "sub.create", id |-> existingSubId,
                             info |-> [userId |-> data.userId]]]
            /\ UNCHANGED nextSub
       ELSE /\ nextSub <= MaxSubs
            /\ calls' = [calls EXCEPT ![c] =
                            Queued("sub.create", nextSub,
                                   <<Cmd("hset", "sub", "",
                                         [userId |-> data.userId, planType |-> data.planType,
                                          status |-> data.status]),
                                     Cmd("set", "sub_user", data.userId, nextSub)>>,
                                   [userId |-> data.userId])]
            /\ nextSub' = nextSub + 1
    /\ UNCHANGED <<subHash, subUserIndex>>

\* delete, first read: getById; a missing subscription ends the call, else
\* the two DELs are queued
SubDeleteGetById(c, subscriptionId) ==
    LET subscription == SubGetById(subHash, subscriptionId) IN
    /\ Ready(c)
    /\ calls' = [calls EXCEPT ![c] =
                    IF subscription = NoSubscription
                    THEN [pc |-> "failed", op |-> "sub.delete", id |-> subscriptionId,
                          info |-> [userId |-> JsNull]]
                    ELSE Queued("sub.delete", subscriptionId,
                                <<Cmd("del", "sub", "", ""),
                                  Cmd("del", "sub_user", subscription.userId, "")>>,
                                [userId |-> subscription.userId])]
    /\ UNCHANGED subVars

\* the inputs of the concurrent calls
RaceSubscriptionDatas == {data \in SubscriptionDatas : data.planType = "free"}

SubRaceNext ==
    /\ \/ /\ \/ \E data \in RaceSubscriptionDatas : SubCreate(data)
             \/ SubSetUserIdStep
          /\ UNCHANGED calls
       \/ /\ \/ \E c \in Callers, data \in RaceSubscriptionDatas : SubCreateGet(c, data)
             \/ \E c \in Callers, id \in KnownSubIds : SubDeleteGetById(c, id)
             \/ \E c \in Callers : PipelineCommand(c)
          /\ UNCHANGED last
    /\ UNCHANGED <<userVars, custVars, projVars, convVars, postVars, updCall, setCall>>

SpecSubRace == Init /\ [][SubRaceNext]_vars

(***************************************************************************)
(* Concurrent calls on one customer (redisCustomerRepository.ts).  A call  *)
(* is its awaited reads followed by the commands of its pipeline; the      *)
(* client's pipeline() sends the commands as one batch that the store runs *)
(* in order but not as a transaction, so commands of other callers and     *)
(* reads can fall between two commands of a batch.                         *)
(***************************************************************************)
\* the commands setOwner queues, in order; the HDEL and the ZREM are queued
\* when the owner read is truthy
SetOwnerPipeline(currentOwnerUserId, newOwnerUserId) ==
    <<Cmd("hset", "main", "", [ownerUserId |-> newOwnerUserId]),
      Cmd("hset", "permissions", "", [u \in {newOwnerUserId} |-> "owner"])>>
    \o (IF Truthy(currentOwnerUserId)
        THEN <<Cmd("hdel", "permissions", currentOwnerUserId, "")>> ELSE <<>>)
    \o <<Cmd("zadd", newOwnerUserId, "", ROLE_PRIORITY["owner"])>>
    \o (IF Truthy(currentOwnerUserId)
        THEN <<Cmd("zrem", currentOwnerUserId, "", "")>> ELSE <<>>)

\* setOwner, first command: HGET of ownerUserId (null when the hash has no
\* such field); then the pipeline is queued
SetOwnerHGet(c, customerId, newOwnerUserId) ==
    LET currentOwnerUserId == IF "ownerUserId" \in DOMAIN custHash[customerId]
                              THEN custHash[customerId].ownerUserId ELSE JsNull
    IN
    /\ Ready(c)
    /\ calls' = [calls EXCEPT ![c] =
                    Queued("setOwner", customerId,
                           SetOwnerPipeline(currentOwnerUserId, newOwnerUserId),
                           [userId |-> newOwnerUserId, prevOwner |-> currentOwnerUserId])]
    /\ UNCHANGED custVars

\* the commands setPermission queues, in order
SetPermissionPipeline(userId, role) ==
    <<Cmd("hset", "permissions", "", [u \in {userId} |-> role]), Cmd("zadd", userId, "", ROLE_PRIORITY[role])>>

\* setPermission reads nothing: it queues its pipeline
SetPermissionCall(c, customerId, userId, role) ==
    /\ Ready(c)
    /\ calls' = [calls EXCEPT ![c] =
                    Queued("setPermission", customerId, SetPermissionPipeline(userId, role),
                           [userId |-> userId, role |-> role])]
    /\ UNCHANGED custVars

\* delete, first read: getById; a missing customer ends the call
DeleteGetById(c, customerId) ==
    /\ Ready(c)
    /\ calls' = [calls EXCEPT ![c] =
                    IF CustGetById(custHash, custPerms, customerId) = NoCustomer
                    THEN [pc |-> "done", op |-> "delete", id |-> customerId, info |-> [found |-> FALSE]]
                    ELSE [pc |-> "got", op |-> "delete", id |-> customerId, info |-> [found |-> TRUE]]]
    /\ UNCHANGED custVars

\* the orders in which Object.keys can list the users of a permission map
KeyOrders(userIds) ==
    {s \in [1..Cardinality(userIds) -> userIds] : \A i, j \in DOMAIN s : s[i] = s[j] => i = j}

\* the commands delete queues, in order
DeletePipeline(userIds) ==
    <<Cmd("del", "main", "", ""), Cmd("del", "permissions", "", ""), Cmd("del", "projects", "", "")>>
    \o [i \in DOMAIN userIds |-> Cmd("zrem", userIds[i], "", "")]

\* delete, second read: getPermissions; then the pipeline is queued
DeleteGetPermissions(c) ==
    /\ calls[c].pc = "got"
    /\ calls[c].op = "delete"
    /\ \E userIds \in KeyOrders(DOMAIN CustGetPermissions(custPerms, calls[c].id)) :
          calls' = [calls EXCEPT ![c] =
                       Queued("delete", calls[c].id, DeletePipeline(userIds), [found |-> TRUE])]
    /\ UNCHANGED custVars

\* update, first read: getById; a missing customer ends the call, else the
\* HSET of the merged record is sent (with an undefined value the command is
\* either rejected or written without that field)
CustUpdateGetById(c, customerId, data) ==
    LET existing == CustGetById(custHash, custPerms, customerId)
        updatedData == Merge(existing, data)
    IN
    /\ Ready(c)
    /\ IF existing = NoCustomer
       THEN calls' = [calls EXCEPT ![c] = [pc |-> "failed", op |-> "update", id |-> customerId]]
       ELSE \/ /\ UndefinedFields(updatedData) # {}
               /\ calls' = [calls EXCEPT ![c] = [pc |-> "failed", op |-> "update", id |-> customerId]]
            \/ calls' = [calls EXCEPT ![c] =
                            Queued("update", customerId,
                                   <<Cmd("hset", "main", "", UpdateHash(updatedData))>>,
                                   [data |-> data])]
    /\ UNCHANGED custVars

\* the commands create queues, in order
CreatePipeline(data) ==
    <<Cmd("hset", "main", "", CustomerHash(data)),
      Cmd("hset", "permissions", "", [u \in {data.ownerUserId} |-> "owner"]),
      Cmd("zadd", data.ownerUserId, "", ROLE_PRIORITY["owner"])>>

\* create reads nothing: after uuidv4() it queues its pipeline
CustCreateCall(c, data) ==
    /\ Ready(c)
    /\ nextCust <= MaxCustomers
    /\ calls' = [calls EXCEPT ![c] =
                    Queued("create", nextCust, CreatePipeline(data), [userId |-> data.ownerUserId])]
    /\ nextCust' = nextCust + 1
    /\ UNCHANGED <<custHash, custPerms, userCustomers, custProjects>>

\* removePermission reads nothing: it queues the HDEL and the ZREM
RemovePermissionCall(c, customerId, userId) ==
    /\ Ready(c)
    /\ calls' = [calls EXCEPT ![c] =
                    Queued("removePermission", customerId,
                           <<Cmd("hdel", "permissions", userId, ""), Cmd("zrem", userId, "", "")>>,
                           [userId |-> userId])]
    /\ UNCHANGED custVars

\* the inputs of the concurrent update calls
RacePartialCustomerDatas == {data \in PartialCustomerDatas : DOMAIN data = {"name"}}

CustRaceNext ==
    /\ \/ /\ \E data \in CustomerDatas : "industry" \notin DOMAIN data /\ CustCreate(data)
          /\ UNCHANGED calls
       \/ /\ \/ \E c \in Callers, id \in KnownCustIds, u \in CustUsers : SetOwnerHGet(c, id, u)
             \/ \E c \in Callers, id \in KnownCustIds, u \in CustUsers, r \in Roles :
                   SetPermissionCall(c, id, u, r)
             \/ \E c \in Callers, id \in KnownCustIds : DeleteGetById(c, id)
             \/ \E c \in Callers : DeleteGetPermissions(c)
             \/ \E c \in Callers, id \in KnownCustIds, data \in RacePartialCustomerDatas :
                   CustUpdateGetById(c, id, data)
             \/ \E c \in Callers : PipelineCommand(c)
          /\ UNCHANGED last
    /\ OneCustomer'
    /\ UNCHANGED <<userVars, subVars, projVars, convVars, postVars, updCall, setCall>>

SpecCustRace == Init /\ [][CustRaceNext]_vars

\* the users that customer customerId's permission map gives the role 'owner'
OwnerEntries(customerId) ==
    {u \in DOMAIN custPerms[customerId] : custPerms[customerId][u] = "owner"}

\* C25: once setOwner(C, B) and setOwner(C, D) with B # D, run concurrently,
\* have both completed, whatever the interleaving of their commands, C's
\* permission map has exactly one 'owner' entry and it is C's stored ownerUserId
\* (stated for calls that name a user other than the owner they read).
C25_ConcurrentSetOwner ==
    (/\ \A c \in Callers : /\ calls[c].pc = "done"
                           /\ calls[c].op = "setOwner"
                           /\ calls[c].info.prevOwner # calls[c].info.userId
     /\ calls[1].id = calls[2].id
     /\ calls[1].info.userId # calls[2].info.userId)
        => /\ Cardinality(OwnerEntries(calls[1].id)) = 1
           /\ OwnerEntries(calls[1].id) = {custHash[calls[1].id].ownerUserId}

\* C26: while setOwner(C, B) is the only call in flight, no state that a read
\* can observe has C's stored ownerUserId = B with the permission map not
\* mapping B to 'owner' or still mapping the previous owner to 'owner'.
C26_TransferAtomic ==
    \A c \in Callers :
        (/\ calls[c].pc = "exec"
         /\ calls[c].op = "setOwner"
         /\ \A d \in Callers \ {c} : calls[d].pc = "idle"
         /\ "ownerUserId" \in DOMAIN custHash[calls[c].id]
         /\ custHash[calls[c].id].ownerUserId = calls[c].info.userId)
            => /\ calls[c].info.userId \in OwnerEntries(calls[c].id)
               /\ calls[c].info.prevOwner # calls[c].info.userId
                     => calls[c].info.prevOwner \notin OwnerEntries(calls[c].id)

\* C27: once delete(C) has completed, C's permission map is empty and C is in no
\* user's listUserCustomers result, when the only other call is a
\* setPermission(C, u, r) that had completed before the first command of
\* delete's batch ran.
C27_DeleteRemovesPermissions ==
    \A k \in Callers, d \in Callers :
        (/\ calls[k].pc = "done"
         /\ calls[k].op = "delete"
         /\ calls[k].info.found
         /\ calls[d].pc = "done"
         /\ calls[d].op = "setPermission"
         /\ calls[d].id = calls[k].id
         /\ d \in calls[k].before)
            => /\ custPerms[calls[k].id] = EmptyHash
               /\ \A u \in CustUsers :
                     \A a \in ListUserCustomers(userCustomers, u) : a.customerId # calls[k].id

(***************************************************************************)
(* Concurrent calls on the Project, Conversation and Post repositories:    *)
(* upsert is its EXISTS followed by its HSET, update is getById followed   *)
(* by that upsert, delete is its DELs one after the other.                 *)
(***************************************************************************)
\* Project.upsert, first command: the throws with the EXISTS, then uuidv4()
ProjUpsertExists(c, data, mode, providedProjectId) ==
    LET check == ProjectUpsertCheck(mode, providedProjectId, projHash)
        effectiveProjectId == EffectiveId(providedProjectId, nextProj)
    IN
    /\ Ready(c)
    /\ IF check # "ok"
       THEN /\ calls' = [calls EXCEPT ![c] = [pc |-> "failed", op |-> "proj.upsert", error |-> check]]
            /\ UNCHANGED nextProj
       ELSE /\ effectiveProjectId \in ProjKeys
            /\ calls' = [calls EXCEPT ![c] =
                            Queued("proj.upsert", effectiveProjectId,
                                   <<Cmd("hset", "proj", "", ProjectHash(data))>>, [mode |-> mode])]
            /\ nextProj' = IF effectiveProjectId = nextProj THEN nextProj + 1 ELSE nextProj
    /\ UNCHANGED <<projHash, relVars>>

\* Project.update, first read: getById; a missing project ends the call
ProjUpdateGetById(c, projectId, data) ==
    LET existingProject == ProjGetById(projHash, projectId) IN
    /\ Ready(c)
    /\ calls' = [calls EXCEPT ![c] =
                    IF existingProject = NoProject
                    THEN [pc |-> "failed", op |-> "proj.update", id |-> projectId]
                    ELSE [pc |-> "got", op |-> "proj.update", id |-> projectId,
                          mergedData |-> MergedProject(existingProject, data)]]
    /\ UNCHANGED projVars

\* updateBasicInfo, first command: getById (HGETALL); throws when the project
\* is missing
ProjUpdateBasicInfoGetById(c, projectId, data) ==
    LET existingProject == ProjGetById(projHash, projectId) IN
    /\ Ready(c)
    /\ calls' = [calls EXCEPT ![c] =
                    IF existingProject = NoProject
                    THEN [pc |-> "failed", op |-> "proj.updateBasicInfo", id |-> projectId]
                    ELSE [pc |-> "got", op |-> "proj.updateBasicInfo", id |-> projectId,
                          mergedData |-> BasicInfoData(existingProject, data)]]
    /\ UNCHANGED projVars

\* Project.update and updateBasicInfo, second read: the EXISTS of upsert in
\* 'update' mode; then the HSET is queued
ProjUpdateExists(c) ==
    LET call == calls[c] IN
    /\ call.pc = "got"
    /\ call.op \in {"proj.update", "proj.updateBasicInfo"}
    /\ calls' = [calls EXCEPT ![c] =
                    IF ProjectUpsertCheck("update", {call.id}, projHash) # "ok"
                    THEN [pc |-> "failed", op |-> call.op, id |-> call.id]
                    ELSE Queued(call.op, call.id,
                                <<Cmd("hset", "proj", "", ProjectHash(call.mergedData))>>,
                                [mode |-> "update"])]
    /\ UNCHANGED projVars

\* Project.delete, first read: SMEMBERS of the conversation set, whose result
\* is not used; the three DELs follow, each awaited
ProjDeleteSMembers(c, projectId) ==
    /\ Ready(c)
    /\ calls' = [calls EXCEPT ![c] =
                    Queued("proj.delete", projectId,
                           <<Cmd("del", "proj", "", ""), Cmd("del", "proj_conversations", "", ""),
                             Cmd("del", "proj_posts", "", "")>>,
                           [mode |-> "delete"])]
    /\ UNCHANGED projVars

\* Conversation.upsert, first command: the throws with the EXISTS, then uuidv4()
ConvUpsertExists(c, data, mode, providedConversationId) ==
    LET check == ConversationUpsertCheck(mode, providedConversationId, convHash)
        effectiveConversationId == EffectiveId(providedConversationId, nextConv)
    IN
    /\ Ready(c)
    /\ IF check # "ok"
       THEN /\ calls' = [calls EXCEPT ![c] = [pc |-> "failed", op |-> "conv.upsert", error |-> check]]
            /\ UNCHANGED nextConv
       ELSE /\ effectiveConversationId \in ConvKeys
            /\ calls' = [calls EXCEPT ![c] =
                            Queued("conv.upsert", effectiveConversationId,
                                   <<Cmd("hset", "conv", "", ConversationHash(data))>>,
                                   [mode |-> mode])]
            /\ nextConv' = IF effectiveConversationId = nextConv THEN nextConv + 1 ELSE nextConv
    /\ UNCHANGED <<convHash, convMessages, convPosts>>

\* Conversation.update, first read: getById; a missing conversation ends the call
ConvUpdateGetById(c, conversationId, data) ==
    LET existingConversation == ConvGetById(convHash, conversationId) IN
    /\ Ready(c)
    /\ calls' = [calls EXCEPT ![c] =
                    IF existingConversation = NoConversation
                    THEN [pc |-> "failed", op |-> "conv.update", id |-> conversationId]
                    ELSE [pc |-> "got", op |-> "conv.update", id |-> conversationId,
                          mergedData |-> MergedConversation(existingConversation, data)]]
    /\ UNCHANGED convVars

\* Conversation.update, second read: the EXISTS of upsert in 'update' mode
ConvUpdateExists(c) ==
    LET call == calls[c] IN
    /\ call.pc = "got"
    /\ call.op = "conv.update"
    /\ calls' = [calls EXCEPT ![c] =
                    IF ConversationUpsertCheck("update", {call.id}, convHash) # "ok"
                    THEN [pc |-> "failed", op |-> "conv.update", id |-> call.id]
                    ELSE Queued("conv.update", call.id,
                                <<Cmd("hset", "conv", "", ConversationHash(call.mergedData))>>,
                                [mode |-> "update"])]
    /\ UNCHANGED convVars

\* Conversation.delete reads nothing: it queues its three DELs
ConvDeleteCall(c, conversationId) ==
    /\ Ready(c)
    /\ calls' = [calls EXCEPT ![c] =
                    Queued("conv.delete", conversationId,
                           <<Cmd("del", "conv", "", ""), Cmd("del", "conv_messages", "", ""),
                             Cmd("del", "conv_posts", "", "")>>,
                           [mode |-> "delete"])]
    /\ UNCHANGED convVars

\* Post.upsert, first command: the throws with the EXISTS, then uuidv4(); the
\* HSET and, for a null imageLink, the HDEL follow, each awaited
PostUpsertExists(c, data, mode, providedPostId) ==
    LET check == PostUpsertCheck(mode, providedPostId, postHash)
        effectivePostId == EffectiveId(providedPostId, nextPost)
    IN
    /\ Ready(c)
    /\ IF check # "ok"
       THEN /\ calls' = [calls EXCEPT ![c] = [pc |-> "failed", op |-> "post.upsert", error |-> check]]
            /\ UNCHANGED nextPost
       ELSE /\ effectivePostId \in PostKeys
            /\ calls' = [calls EXCEPT ![c] =
                            Queued("post.upsert", effectivePostId,
                                   <<Cmd("hset", "post", "", PostHash(data))>>
                                   \o (IF data.imageLink = {JsNull}
                                       THEN <<Cmd("hdel", "post", "imageLink", "")>> ELSE <<>>),
                                   [mode |-> mode])]
            /\ nextPost' = IF effectivePostId = nextPost THEN nextPost + 1 ELSE nextPost
    /\ UNCHANGED postHash

\* the inputs of the concurrent calls
RaceProjectDatas == {data \in ProjectDatas : DOMAIN data = {"name", "customerId"}}
RaceConversationDatas == {data \in ConversationDatas : data.title = "t1"}
RacePostDatas == {data \in PostDatas : data.contentPieces = <<"a", "b">> /\ data.imageLink # {}}

ProjRaceNext ==
    /\ \/ /\ \/ \E data \in RaceProjectDatas : ProjUpsert(data, "create", {})
             \/ \E id \in KnownProjIds : ProjSetCustomer(id, CallerId)
             \/ \E id \in KnownProjIds : ProjAddConversation(id, 1)
          /\ UNCHANGED calls
       \/ /\ \/ \E c \in Callers, data \in RaceProjectDatas, id \in {{}, {CallerId}} :
                   ProjUpsertExists(c, data, "create", id)
             \/ \E c \in Callers, id \in KnownProjIds, data \in PartialProjectDatas :
                   DOMAIN data = {"name"} /\ ProjUpdateGetById(c, id, data)
             \/ \E c \in Callers : ProjUpdateExists(c)
             \/ \E c \in Callers, id \in KnownProjIds : ProjDeleteSMembers(c, id)
             \/ \E c \in Callers : PipelineCommand(c)
          /\ UNCHANGED last
    /\ UNCHANGED <<userVars, subVars, custVars, convVars, postVars, updCall, setCall>>

ConvRaceNext ==
    /\ \/ /\ \/ \E data \in RaceConversationDatas : ConvUpsert(data, "create", {})
             \/ \E id \in KnownConvIds : ConvSetProject(id, "j2")
             \/ \E id \in KnownConvIds, message \in Messages :
                   message.content = "m1" /\ message.timestamp = {"t0"} /\ ConvAddMessage(id, message)
             \/ \E id \in KnownConvIds : ConvAddPost(id, 1)
          /\ UNCHANGED calls
       \/ /\ \/ \E c \in Callers, data \in RaceConversationDatas, id \in {{}, {CallerId}} :
                   ConvUpsertExists(c, data, "create", id)
             \/ \E c \in Callers, id \in KnownConvIds, data \in PartialConversationDatas :
                   data = [title |-> "t2"] /\ ConvUpdateGetById(c, id, data)
             \/ \E c \in Callers : ConvUpdateExists(c)
             \/ \E c \in Callers, id \in KnownConvIds : ConvDeleteCall(c, id)
             \/ \E c \in Callers : PipelineCommand(c)
          /\ UNCHANGED last
    /\ UNCHANGED <<userVars, subVars, custVars, projVars, postVars, updCall, setCall>>

PostRaceNext ==
    /\ \/ /\ \/ \E data \in RacePostDatas : PostUpsert(data, "create", {})
             \/ \E id \in KnownPostIds : PostSetContentPieces(id, <<"b", "a">>)
          /\ UNCHANGED calls
       \/ /\ \/ \E c \in Callers, data \in RacePostDatas, mode \in {"create", "update"},
                   id \in {{}, {CallerId}} : PostUpsertExists(c, data, mode, id)
             \/ \E c \in Callers : PipelineCommand(c)
          /\ UNCHANGED last
    /\ UNCHANGED <<userVars, subVars, custVars, projVars, convVars, updCall, setCall>>

SpecProjRace == Init /\ [][ProjRaceNext]_vars
SpecConvRace == Init /\ [][ConvRaceNext]_vars
SpecPostUpsertRace == Init /\ [][PostRaceNext]_vars

(***************************************************************************)
(* Specifications of the repositories.  In a behaviour the calls are made  *)
(* either one after the other, each in one step (AllIdle), or command by   *)
(* command from the start: then the awaited reads of a call and the        *)
(* commands of its pipeline are steps of their own, the steps of the two   *)
(* callers interleave, and a caller makes its next call when its last one  *)
(* has returned.  The calls made command by command take their inputs from *)
(* the Call... sets.                                                       *)
(***************************************************************************)
\* a step of a call made command by command by some caller
CallStep(Start(_)) ==
    \E c \in Callers :
        /\ CommandByCommand
        /\ \/ Start(c)
           \/ PipelineCommand(c)
           \/ CallReturn(c)
        /\ last' = Command(c)

CallUserDatas == {data \in RaceUserDatas : data.email # <<>>}
CallPartialUserDatas == {[email |-> <<98>>], [name |-> "n2"], PartialUserData({}, {}, {})}

\* a step that caller c's call on the User repository takes by itself
UserCallStep(c) ==
    \/ \E data \in CallUserDatas : UpsertGet(c, data, "create")
    \/ UpsertHSet(c)
    \/ UpsertSetIndex(c)
    \/ \E userId \in KnownUserIds, data \in CallPartialUserDatas : UserUpdateGetById(c, userId, data)
    \/ UserUpdateGet(c)
    \/ \E userId \in KnownUserIds : UserDeleteGetById(c, userId)

UserNext ==
    /\ \/ /\ AllIdle
          /\ \/ UserUpsertStep
             \/ UserUpdateStep
             \/ UserSetSubscriptionIdStep
             \/ UserDeleteStep
          /\ UNCHANGED calls
       \/ CallStep(UserCallStep)
    /\ UNCHANGED <<subVars, custVars, projVars, convVars, postVars, updCall, setCall>>

CallSubscriptionDatas == {data \in RaceSubscriptionDatas : data.userId = "u1"}

\* a step that caller c's call on the Subscription repository takes by itself
SubCallStep(c) ==
    \/ \E data \in CallSubscriptionDatas : SubCreateGet(c, data)
    \/ \E id \in KnownSubIds : SubDeleteGetById(c, id)

SubNext ==
    /\ \/ /\ AllIdle
          /\ \/ SubCreateStep
             \/ SubUpdateStep
             \/ SubSetUserIdStep
             \/ SubDeleteStep
          /\ UNCHANGED calls
       \/ CallStep(SubCallStep)
       \/ /\ ~AllIdle
          /\ \/ \E id \in KnownSubIds : SubSetUserId(id, "u2")
             \/ \E id \in KnownSubIds : SubUpdate(id, [planType |-> "pro"])
          /\ UNCHANGED calls
    /\ UNCHANGED <<userVars, custVars, projVars, convVars, postVars, updCall, setCall>>

CallCustomerDatas ==
    {data \in CustomerDatas : DOMAIN data = {"name", "ownerUserId"} /\ data.ownerUserId = "A"}
CallPartialCustomerDatas == {[industry |-> "i1"], [industry |-> JsUndefined]}

\* a step that caller c's call on the Customer repository takes by itself
CustCallStep(c) ==
    \/ \E data \in CallCustomerDatas : CustCreateCall(c, data)
    \/ \E id \in KnownCustIds, data \in CallPartialCustomerDatas : CustUpdateGetById(c, id, data)
    \/ \E id \in KnownCustIds : DeleteGetById(c, id)
    \/ DeleteGetPermissions(c)
    \/ \E id \in KnownCustIds : SetPermissionCall(c, id, "B", "viewer")
    \/ \E id \in KnownCustIds : RemovePermissionCall(c, id, "B")
    \/ \E id \in KnownCustIds : SetOwnerHGet(c, id, "B")

CustNext ==
    /\ \/ /\ AllIdle
          /\ \/ CustCreateStep
             \/ CustUpdateStep
             \/ CustDeleteStep
             \/ CustSetPermissionStep
             \/ CustRemovePermissionStep
             \/ CustSetOwnerStep
             \/ CustAddProjectStep
             \/ CustRemoveProjectStep
          /\ UNCHANGED calls
       \/ CallStep(CustCallStep)
       \/ /\ ~AllIdle
          /\ CustAddProjectStep \/ CustRemoveProjectStep
          /\ UNCHANGED calls
    /\ OneCustomer'
    /\ UNCHANGED <<userVars, subVars, projVars, convVars, postVars, updCall, setCall>>

\* the Customer repository with two customers: the operations that write the
\* permission maps and the users' sorted sets, and the update of the
\* ownerUserId field that setOwner reads.  The calls that run command by
\* command are made on one customer.
IndexUsers == {"", "A"}
IndexCustomerDatas ==
    {data \in CustomerDatas : DOMAIN data = {"name", "ownerUserId"} /\ data.ownerUserId \in IndexUsers}

\* a step that caller c's call takes by itself
CustIndexCallStep(c) ==
    \/ \E data \in CallCustomerDatas : CustCreateCall(c, data)
    \/ \E id \in KnownCustIds : DeleteGetById(c, id)
    \/ DeleteGetPermissions(c)
    \/ \E id \in KnownCustIds : SetPermissionCall(c, id, "B", "viewer")
    \/ \E id \in KnownCustIds : RemovePermissionCall(c, id, "B")
    \/ \E id \in KnownCustIds : SetOwnerHGet(c, id, "B")
    \/ \E id \in KnownCustIds : CustUpdateGetById(c, id, [ownerUserId |-> ""])

CustIndexNext ==
    /\ \/ /\ AllIdle
          /\ \/ \E data \in IndexCustomerDatas : CustCreate(data)
             \/ CustDeleteStep
             \/ \E id \in KnownCustIds, u \in IndexUsers, r \in Roles : CustSetPermission(id, u, r)
             \/ \E id \in KnownCustIds, u \in IndexUsers : CustRemovePermission(id, u)
             \/ \E id \in KnownCustIds, u \in IndexUsers : CustSetOwner(id, u)
             \/ \E id \in KnownCustIds, u \in IndexUsers : CustUpdate(id, [ownerUserId |-> u])
          /\ UNCHANGED calls
       \/ CallStep(CustIndexCallStep) /\ OneCustomer'
    /\ UNCHANGED <<userVars, subVars, projVars, convVars, postVars, updCall, setCall>>

SpecUser == Init /\ [][UserNext]_vars
SpecSubscription == Init /\ [][SubNext]_vars
SpecCustomer == Init /\ [][CustNext]_vars
SpecCustIndex == Init /\ [][CustIndexNext]_vars

\* a step that caller c's call on the Project repository takes by itself
ProjCallStep(c) ==
    \/ \E data \in RaceProjectDatas, mode \in {"create", "update"}, id \in {{}, {CallerId}} :
          ProjUpsertExists(c, data, mode, id)
    \/ \E id \in KnownProjIds, data \in PartialProjectDatas :
          DOMAIN data = {"name"} /\ ProjUpdateGetById(c, id, data)
    \/ \E id \in KnownProjIds, data \in PartialBasicInfos :
          DOMAIN data = {"objective"} /\ ProjUpdateBasicInfoGetById(c, id, data)
    \/ ProjUpdateExists(c)
    \/ \E id \in KnownProjIds : ProjDeleteSMembers(c, id)

\* a step that caller c's call on the Conversation repository takes by itself
ConvCallStep(c) ==
    \/ \E data \in RaceConversationDatas, mode \in {"create", "update"}, id \in {{}, {CallerId}} :
          ConvUpsertExists(c, data, mode, id)
    \/ \E id \in KnownConvIds, data \in PartialConversationDatas :
          data = [title |-> "t2"] /\ ConvUpdateGetById(c, id, data)
    \/ ConvUpdateExists(c)
    \/ \E id \in KnownConvIds : ConvDeleteCall(c, id)

\* a step that caller c's upsert on the Post repository takes by itself
PostCallStep(c) ==
    \E data \in RacePostDatas, mode \in {"create", "update"}, id \in {{}, {CallerId}} :
        PostUpsertExists(c, data, mode, id)

\* The three repositories write disjoint keys (proj:, conv:, post:), so a run
\* exercises one of them: a step of one repository is taken while the other
\* two still hold nothing and have no call in flight.
CallsOf(ops) == \A c \in Callers : IF Ready(c) THEN TRUE ELSE calls[c].op \in ops

ProjOps == {"proj.upsert", "proj.update", "proj.updateBasicInfo", "proj.delete"}
ConvOps == {"conv.upsert", "conv.update", "conv.delete"}
PostOps == {"post.upsert"}

UpsertNext ==
    /\ \/ /\ ConvUntouched /\ PostUntouched /\ CallsOf(ProjOps)
          /\ \/ /\ AllIdle
                /\ \/ ProjUpsertStep
                   \/ ProjSetCustomerStep
                   \/ ProjUpdateAiContextStep
                   \/ \E id \in KnownProjIds, data \in PartialBasicInfos : ProjUpdateBasicInfo(id, data)
                   \/ ProjDeleteStep
                /\ UNCHANGED calls
             \/ CallStep(ProjCallStep)
             \/ /\ ~AllIdle
                /\ \E id \in KnownProjIds : ProjSetCustomer(id, CallerId)
                /\ UNCHANGED calls
          /\ UNCHANGED <<convVars, postVars>>
       \/ /\ ProjUntouched /\ PostUntouched /\ CallsOf(ConvOps)
          /\ \/ /\ AllIdle
                /\ ConvUpsertStep \/ ConvSetProjectStep \/ ConvDeleteStep
                /\ UNCHANGED calls
             \/ CallStep(ConvCallStep)
             \/ /\ ~AllIdle
                /\ \E id \in KnownConvIds : ConvSetProject(id, "j2")
                /\ UNCHANGED calls
          /\ UNCHANGED <<projVars, postVars>>
       \/ /\ ProjUntouched /\ ConvUntouched /\ CallsOf(PostOps)
          /\ \/ /\ AllIdle
                /\ PostUpsertStep \/ PostSetContentPiecesStep
                /\ UNCHANGED calls
             \/ CallStep(PostCallStep)
             \/ /\ ~AllIdle
                /\ \E id \in KnownPostIds : PostSetContentPieces(id, <<"b", "a">>)
                /\ UNCHANGED calls
          /\ UNCHANGED <<projVars, convVars>>
    /\ UNCHANGED <<userVars, subVars, custVars, updCall, setCall>>

SpecUpsert == Init /\ [][UpsertNext]_vars

\* Post repository with one update call and one setContentPieces call in
\* flight: posts are created first, in one step each or command by command,
\* then the store commands of the two calls interleave in every order.
RaceNext ==
    /\ \/ /\ updCall.pc = "idle" /\ setCall.pc = "idle"
          /\ \/ AllIdle /\ PostUpsertStep /\ UNCHANGED calls
             \/ CallStep(PostCallStep)
          /\ UNCHANGED <<updCall, setCall>>
       \/ /\ \/ PostUpdateReadStep
             \/ PostUpdateExists
             \/ PostUpdateHSet
             \/ PostUpdateHDel
             \/ PostSetContentPiecesCallStep
          /\ UNCHANGED calls
    /\ UNCHANGED <<userVars, subVars, custVars, projVars, convVars>>

SpecPostRace == Init /\ [][RaceNext]_vars

\* Conversation repository with its message list
ConvNext ==
    /\ \/ /\ AllIdle
          /\ \/ ConvUpsertStep
             \/ ConvUpdateStep
             \/ ConvSetProjectStep
             \/ ConvDeleteStep
             \/ ConvAddMessageStep
             \/ \E id \in KnownConvIds : ConvAddPost(id, 1)
             \/ \E id \in KnownConvIds : ConvRemovePost(id, 1)
          /\ UNCHANGED calls
       \/ CallStep(ConvCallStep)
       \/ /\ ~AllIdle
          /\ \/ \E id \in KnownConvIds : ConvSetProject(id, "j2")
             \/ \E id \in KnownConvIds : ConvAddPost(id, 1)
             \/ \E id \in KnownConvIds : ConvRemovePost(id, 1)
             \/ \E id \in KnownConvIds, message \in Messages :
                   message.content = "m1" /\ message.timestamp = {"t0"} /\ ConvAddMessage(id, message)
          /\ UNCHANGED calls
    /\ OneConversation'
    /\ UNCHANGED <<userVars, subVars, custVars, projVars, postVars, updCall, setCall>>

SpecConversation == Init /\ [][ConvNext]_vars

\* the same, with a writer that corrupts the message list
CorruptNext ==
    \/ ConvNext
    \/ /\ AllIdle
       /\ RawRPushStep
       /\ OneConversation'
       /\ UNCHANGED <<userVars, subVars, custVars, projVars, postVars, callVars>>

SpecCorrupt == Init /\ [][CorruptNext]_vars

(***************************************************************************)
(* Users and subscriptions side by side: the two repositories share the    *)
(* store, each under its own key prefixes (user:, user_email:, sub:,       *)
(* sub_user:).                                                             *)
(***************************************************************************)
\* a step that caller c's call on one of the two repositories takes by itself
UserSubCallStep(c) ==
    \/ /\ \/ \E data \in CallUserDatas : UpsertGet(c, data, "create")
          \/ UpsertHSet(c)
          \/ UpsertSetIndex(c)
          \/ \E userId \in KnownUserIds : UserUpdateGetById(c, userId, [email |-> <<98>>])
          \/ UserUpdateGet(c)
          \/ \E userId \in KnownUserIds : UserDeleteGetById(c, userId)
       /\ UNCHANGED subVars
    \/ /\ SubCallStep(c)
       /\ UNCHANGED userVars

UserSubNext ==
    /\ \/ /\ \/ \E data \in UserDatas :
                   /\ data.name = "n1"
                   /\ data.subscriptionId \in SubscriptionIds
                   /\ UserUpsert(data, "create")
             \/ \E userId \in KnownUserIds, data \in PartialUserDatas :
                   /\ DOMAIN data = {"email"}
                   /\ UserUpdate(userId, data)
             \/ UserDeleteStep
          /\ UNCHANGED <<subVars, calls>>
       \/ /\ \/ \E data \in SubscriptionDatas :
                   /\ data.planType = "free"
                   /\ data.status = "active"
                   /\ SubCreate(data)
             \/ SubDeleteStep
          /\ UNCHANGED <<userVars, calls>>
       \/ CallStep(UserSubCallStep)
    /\ UNCHANGED <<custVars, projVars, convVars, postVars, updCall, setCall>>

SpecUserSub == Init /\ [][UserSubNext]_vars

(***************************************************************************)
(* The Project repository with its relationship sets                       *)
(* (redisProjectRepository.ts): the keys it writes are computed with       *)
(* RedisKeys, and listByCustomer scans them.                               *)
(***************************************************************************)
\* the repository is constructed without a namespace
ProjNamespace == <<>>

\* the characters of an id: "" for the empty id, "x" for the caller's id, one
\* digit for a generated id
IdChars(id) == IF id = EmptyId THEN <<>> ELSE IF id = CallerId THEN <<120>> ELSE <<48 + id>>

\* the keys under the project prefix that exist in the store, with their type
\* (a set with no member does not exist)
ProjStoreKeys ==
    {[key |-> KeyOf(ProjNamespace, "project", IdChars(p)), type |-> "hash", id |-> p] :
        p \in {q \in ProjKeys : Exists(projHash[q])}}
    \cup {[key |-> KeyOf(ProjNamespace, "projectConversations", IdChars(p)), type |-> "set", id |-> p] :
        p \in {q \in ProjKeys : projConversations[q] # {}}}
    \cup {[key |-> KeyOf(ProjNamespace, "projectPosts", IdChars(p)), type |-> "set", id |-> p] :
        p \in {q \in ProjKeys : projPosts[q] # {}}}

StartsWith(s, prefix) == Len(prefix) <= Len(s) /\ SubSeq(s, 1, Len(prefix)) = prefix

\* KEYS with a pattern that ends in '*' and has no other glob character
RedisKeysMatching(pattern) ==
    {k \in ProjStoreKeys : StartsWith(k.key, SubSeq(pattern, 1, Len(pattern) - 1))}

\* String.prototype.replace(pattern, '') with a string pattern: the first
\* occurrence is removed
Replace(s, pattern) ==
    LET at == {i \in 1..(Len(s) - Len(pattern) + 1) : SubSeq(s, i, i + Len(pattern) - 1) = pattern} IN
    IF pattern = <<>> \/ at = {} THEN s
    ELSE LET i == CHOOSE j \in at : \A k \in at : j <= k IN
         SubSeq(s, 1, i - 1) \o SubSeq(s, i + Len(pattern), Len(s))

\* the answer of HGETALL to a key that holds a set
WrongType == [id |-> Null, error |-> "WRONGTYPE"]

\* getById for an id given as a string: HGETALL of project(projectId)
ProjGetByIdChars(projectId) ==
    LET mainKey == KeyOf(ProjNamespace, "project", projectId)
        held == {k \in ProjStoreKeys : k.key = mainKey}
    IN IF held = {} THEN NoProject
       ELSE IF \E k \in held : k.type = "set" THEN WrongType
       ELSE ProjGetById(projHash, (CHOOSE k \in held : TRUE).id)

\* listByCustomer: KEYS project('*'), getById of every key with project('')
\* removed, then the filter; {WrongType} when a getById rejects
ListByCustomer(customerId) ==
    LET projectKeys == RedisKeysMatching(KeyOf(ProjNamespace, "project", <<42>>))
        projects == {ProjGetByIdChars(Replace(k.key, join(ProjNamespace, <<<<112, 114, 111, 106>>, <<>>>>))) :
                        k \in projectKeys}
    IN IF WrongType \in projects THEN {WrongType}
       ELSE {p \in projects : p # NoProject /\ p.customerId = customerId}

\* the stored projects whose customerId is customerId
ProjectsOfCustomer(customerId) ==
    {ProjGetById(projHash, p) :
        p \in {q \in ProjKeys : /\ ProjGetById(projHash, q) # NoProject
                                /\ ProjGetById(projHash, q).customerId = customerId}}

\* the ids of the projects created with a generated id
GeneratedProjIds == 1..(nextProj - 1)

\* a step that caller c's call on the Project repository takes by itself, on
\* the projects with a generated id
ProjectCallStep(c) ==
    \/ \E data \in RaceProjectDatas, mode \in {"create", "update"}, id \in {{}, {CallerId}} :
          ProjUpsertExists(c, data, mode, id)
    \/ \E id \in GeneratedProjIds : ProjUpdateGetById(c, id, [name |-> "p2"])
    \/ \E id \in GeneratedProjIds : ProjUpdateBasicInfoGetById(c, id, [objective |-> "o1"])
    \/ ProjUpdateExists(c)
    \/ \E id \in GeneratedProjIds : ProjDeleteSMembers(c, id)

ProjectNext ==
    /\ \/ /\ AllIdle
          /\ \/ \E data \in ProjectDatas, id \in {{}, {CallerId}} : ProjUpsert(data, "create", id)
             \/ \E id \in KnownProjIds, data \in PartialProjectDatas : ProjUpdate(id, data)
             \/ \E id \in KnownProjIds, data \in PartialBasicInfos : ProjUpdateBasicInfo(id, data)
             \/ ProjSetCustomerStep
             \/ ProjUpdateAiContextStep
             \/ ProjDeleteStep
             \/ \E id \in KnownProjIds : ProjAddConversation(id, 1)
             \/ \E id \in KnownProjIds : ProjRemoveConversation(id, 1)
             \/ \E id \in KnownProjIds : ProjAddPost(id, 1)
             \/ \E id \in KnownProjIds : ProjRemovePost(id, 1)
          /\ UNCHANGED calls
       \/ CallStep(ProjectCallStep)
       \/ /\ ~AllIdle
          /\ \/ \E id \in GeneratedProjIds : ProjAddConversation(id, 1)
             \/ \E id \in GeneratedProjIds : ProjRemoveConversation(id, 1)
             \/ \E id \in GeneratedProjIds : ProjSetCustomer(id, CallerId)
             \/ \E id \in GeneratedProjIds : ProjUpdateAiContext(id, [goal |-> "g1"])
          /\ UNCHANGED calls
    /\ UNCHANGED <<userVars, subVars, custVars, convVars, postVars, updCall, setCall>>

SpecProject == Init /\ [][ProjectNext]_vars

\* C28: in every reachable state, states where projects have non-empty
\* conversation or post sets included, listByCustomer(c) completes without
\* error and returns exactly the stored projects whose customerId is c.
C28_ListByCustomer ==
    \A c \in CustomerIds : ListByCustomer(c) = ProjectsOfCustomer(c)

\* a record without its null fields (null and undefined read alike)
Defined(r) ==
    [f \in {g \in DOMAIN r : /\ ~(g = "objective" /\ r[g] = JsNull)
                             /\ ~(g = "aiContext" /\ r[g] = NullContext)} |-> r[f]]

\* C29: the record that a successful update(id, partial) returns, a null field
\* read as an absent one, equals the record a following getById(id) returns,
\* also when the partial sets objective or aiContext to null.
C29_UpdateReturnsStored ==
    [][(last'.op = "proj.update" /\ last'.ok)
          => Defined(last'.returned) = ProjGetById(projHash', last'.id)]_vars

(***************************************************************************)
(* The two sides of a relationship: the customer's project set with the    *)
(* project's customerId, and the project's conversation set with the       *)
(* conversation's projectId.  A conversation's projectId is a project id.  *)
(***************************************************************************)
\* conversationRouter.create called while no other call is in flight:
\* Conversation.create, then Project.addConversation with the new
\* conversation's id
RouterCreateConversation(data) ==
    /\ nextConv \in ConvKeys
    /\ ConvUpsert(data, "create", {})
    /\ projConversations' = [projConversations EXCEPT ![data.projectId] = @ \cup {nextConv}]
    /\ UNCHANGED <<projHash, nextProj, projPosts>>
    /\ UNCHANGED custVars

\* conversationRouter.create, command by command: uuidv4(), then the HSET of
\* Conversation.create and the SADD of Project.addConversation, each awaited
RouterCreateCall(c, data) ==
    /\ Ready(c)
    /\ nextConv \in ConvKeys
    /\ calls' = [calls EXCEPT ![c] =
                    Queued("router.create", nextConv,
                           <<Cmd("hset", "conv", "", ConversationHash(data)),
                             Cmd("sadd", "proj_conversations", data.projectId, nextConv)>>,
                           [mode |-> "create"])]
    /\ nextConv' = nextConv + 1
    /\ UNCHANGED <<convHash, convMessages, convPosts, projVars, custVars>>

GeneratedConvIds == 1..(nextConv - 1)

\* a step of caller c's call on one of the three repositories or on the router
RelationCallStep(c) ==
    \/ /\ \E data \in RaceProjectDatas : data.name = "p1" /\ ProjUpsertExists(c, data, "create", {})
       /\ UNCHANGED <<custVars, convVars>>
    \/ /\ \E p \in GeneratedProjIds : ProjDeleteSMembers(c, p)
       /\ UNCHANGED <<custVars, convVars>>
    \/ /\ \E data \in CallCustomerDatas : CustCreateCall(c, data)
       /\ UNCHANGED <<projVars, convVars>>
    \/ /\ \/ \E k \in KnownCustIds : DeleteGetById(c, k)
          \/ DeleteGetPermissions(c)
       /\ UNCHANGED <<projVars, convVars>>
    \/ /\ \E v \in GeneratedConvIds : ConvDeleteCall(c, v)
       /\ UNCHANGED <<custVars, projVars>>
    \/ \E p \in ProjKeys : RouterCreateCall(c, [projectId |-> p, title |-> "t1"])

RelationNext ==
    /\ \/ /\ AllIdle
          /\ \/ /\ \/ \E data \in ProjectDatas :
                         /\ DOMAIN data = {"name", "customerId"}
                         /\ data.name = "p1"
                         /\ ProjUpsert(data, "create", {})
                   \/ \E p \in GeneratedProjIds, c \in ProjectCustomerIds : ProjSetCustomer(p, c)
                   \/ \E p \in GeneratedProjIds : ProjDelete(p)
                   \/ \E p \in GeneratedProjIds, v \in GeneratedConvIds : ProjAddConversation(p, v)
                   \/ \E p \in GeneratedProjIds, v \in GeneratedConvIds : ProjRemoveConversation(p, v)
                /\ UNCHANGED <<custVars, convVars>>
             \/ /\ \/ \E data \in CustomerDatas :
                         /\ DOMAIN data = {"name", "ownerUserId"}
                         /\ data.ownerUserId = "A"
                         /\ CustCreate(data)
                   \/ \E c \in KnownCustIds : CustDelete(c)
                   \/ \E p \in GeneratedProjIds, c \in ProjectCustomerIds : CustAddProject(c, p)
                   \/ \E p \in GeneratedProjIds, c \in ProjectCustomerIds : CustRemoveProject(c, p)
                /\ UNCHANGED <<projVars, convVars>>
             \/ /\ \/ \E p \in ProjKeys : ConvUpsert([projectId |-> p, title |-> "t1"], "create", {})
                   \/ \E v \in GeneratedConvIds, p \in ProjKeys : ConvSetProject(v, p)
                   \/ \E v \in GeneratedConvIds : ConvDelete(v)
                   \/ \E v \in GeneratedConvIds : ConvAddPost(v, 1)
                   \/ \E v \in GeneratedConvIds : ConvRemovePost(v, 1)
                /\ UNCHANGED <<custVars, projVars>>
             \/ \E p \in ProjKeys : RouterCreateConversation([projectId |-> p, title |-> "t1"])
          /\ UNCHANGED calls
       \/ CallStep(RelationCallStep)
       \/ /\ ~AllIdle
          /\ \/ /\ \E p \in GeneratedProjIds : ProjSetCustomer(p, CallerId)
                /\ UNCHANGED <<custVars, convVars>>
             \/ /\ \E p \in GeneratedProjIds : CustAddProject(1, p)
                /\ UNCHANGED <<projVars, convVars>>
             \/ /\ \E v \in GeneratedConvIds : ConvSetProject(v, CallerId)
                /\ UNCHANGED <<custVars, projVars>>
          /\ UNCHANGED calls
    /\ OneCustomer'
    /\ UNCHANGED <<userVars, subVars, postVars, updCall, setCall>>

SpecRelations == Init /\ [][RelationNext]_vars

\* C30: in every state reached by repository operations that ran one after the
\* other, each to completion, project p is in customer c's project set exactly
\* when p's stored customerId is c, and conversation v is in project p's
\* conversation set exactly when v's stored projectId is p.
C30_SetsMatchPointers ==
    AllIdle =>
        /\ \A c \in CustomerIds, p \in ProjKeys :
              p \in custProjects[c]
                 <=> ("customerId" \in DOMAIN projHash[p] /\ projHash[p].customerId = c)
        /\ \A p \in ProjKeys, v \in ConvKeys :
              v \in projConversations[p]
                 <=> ("projectId" \in DOMAIN convHash[v] /\ convHash[v].projectId = p)

(***************************************************************************)
(* purgeTestData (RedisPurge), a maintenance script beside the             *)
(* repositories: KEYS '*', then one awaited DEL for every key that starts  *)
(* with 'test:', or starts with 'user:' and has no ':email' in it, or      *)
(* starts with 'sub:'.  Keys are sequences of character codes.             *)
(***************************************************************************)
\* the characters of a user id of the Customer repository and of a userId of
\* the Subscription repository
CustUserChars(u) == CASE u = "" -> <<>> [] u = "A" -> <<65>> [] u = "B" -> <<66>>
SubUserChars(u) == IF u = "u1" THEN <<117, 49>> ELSE <<117, 50>>

\* 'user:' + userId and 'user_email:' + the lower-cased email
UserKey(u) == <<117, 115, 101, 114, 58>> \o IdChars(u)
EmailIndexKey(k) == <<117, 115, 101, 114, 95, 101, 109, 97, 105, 108, 58>> \o k

\* 'sub:' + subscriptionId and 'sub_user:' + userId
SubMainKey(s) == <<115, 117, 98, 58>> \o IdChars(s)
UserIndexKey(u) == <<115, 117, 98, 95, 117, 115, 101, 114, 58>> \o SubUserChars(u)

\* the sorted set of a user's customers, and the main hash, the permission map
\* and the project set of a customer
UserCustomersKey(u) == KeyOf(<<>>, "userCustomers", CustUserChars(u))
CustMainKey(c) == KeyOf(<<>>, "customer", IdChars(c))
CustPermissionsKey(c) == KeyOf(<<>>, "customerPermissions", IdChars(c))
CustProjectsKey(c) == KeyOf(<<>>, "customerProjects", IdChars(c))

\* 'conv:' + conversationId, with ':messages' and ':posts'; 'post:' + postId
ConvMainKey(v) == <<99, 111, 110, 118, 58>> \o IdChars(v)
ConvMessagesKey(v) == ConvMainKey(v) \o <<58, 109, 101, 115, 115, 97, 103, 101, 115>>
ConvPostsKey(v) == ConvMainKey(v) \o <<58, 112, 111, 115, 116, 115>>
PostMainKey(q) == <<112, 111, 115, 116, 58>> \o IdChars(q)

\* KEYS '*': every key that exists in the store (a hash with no field, a set
\* or sorted set with no member and a list with no element do not exist)
AllKeys ==
    {UserKey(u) : u \in {v \in UserKeys : Exists(userHash[v])}}
    \cup {EmailIndexKey(k) : k \in DOMAIN emailIndex}
    \cup {SubMainKey(s) : s \in {t \in SubKeys : Exists(subHash[t])}}
    \cup {UserIndexKey(u) : u \in DOMAIN subUserIndex}
    \cup {UserCustomersKey(u) : u \in {v \in CustUsers : DOMAIN userCustomers[v] # {}}}
    \cup {CustMainKey(c) : c \in {d \in CustKeys : Exists(custHash[d])}}
    \cup {CustPermissionsKey(c) : c \in {d \in CustKeys : Exists(custPerms[d])}}
    \cup {CustProjectsKey(c) : c \in {d \in CustomerIds : custProjects[d] # {}}}
    \cup {k.key : k \in ProjStoreKeys}
    \cup {ConvMainKey(v) : v \in {w \in ConvKeys : Exists(convHash[w])}}
    \cup {ConvMessagesKey(v) : v \in {w \in ConvKeys : convMessages[w] # <<>>}}
    \cup {ConvPostsKey(v) : v \in {w \in ConvKeys : convPosts[w] # {}}}
    \cup {PostMainKey(q) : q \in {r \in PostKeys : Exists(postHash[r])}}

\* String.prototype.includes
Includes(s, t) == \E i \in 1..(Len(s) - Len(t) + 1) : SubSeq(s, i, i + Len(t) - 1) = t

\* the filter of purgeTestData: 'test::', 'test:', 'user:' without ':email', 'sub:'
IsPurged(key) ==
    \/ StartsWith(key, <<116, 101, 115, 116, 58, 58>>)
    \/ StartsWith(key, <<116, 101, 115, 116, 58>>)
    \/ /\ StartsWith(key, <<117, 115, 101, 114, 58>>)
       /\ ~Includes(key, <<58, 101, 109, 97, 105, 108>>)
    \/ StartsWith(key, <<115, 117, 98, 58>>)

TestKeys == {key \in AllKeys : IsPurged(key)}

\* the store after DEL of every key in keys
DelKeys(keys) ==
    /\ userHash' = [u \in UserKeys |-> IF UserKey(u) \in keys THEN EmptyHash ELSE userHash[u]]
    /\ emailIndex' = [k \in {j \in DOMAIN emailIndex : EmailIndexKey(j) \notin keys} |-> emailIndex[k]]
    /\ subHash' = [s \in SubKeys |-> IF SubMainKey(s) \in keys THEN EmptyHash ELSE subHash[s]]
    /\ subUserIndex' = [u \in {v \in DOMAIN subUserIndex : UserIndexKey(v) \notin keys} |-> subUserIndex[u]]
    /\ userCustomers' = [u \in CustUsers |->
                            IF UserCustomersKey(u) \in keys THEN [c \in {} |-> 0] ELSE userCustomers[u]]
    /\ custHash' = [c \in CustKeys |-> IF CustMainKey(c) \in keys THEN EmptyHash ELSE custHash[c]]
    /\ custPerms' = [c \in CustKeys |-> IF CustPermissionsKey(c) \in keys THEN EmptyHash ELSE custPerms[c]]
    /\ custProjects' = [c \in CustomerIds |-> IF CustProjectsKey(c) \in keys THEN {} ELSE custProjects[c]]
    /\ projHash' = [q \in ProjKeys |->
                       IF KeyOf(ProjNamespace, "project", IdChars(q)) \in keys THEN EmptyHash
                       ELSE projHash[q]]
    /\ projConversations' = [q \in ProjKeys |->
                                IF KeyOf(ProjNamespace, "projectConversations", IdChars(q)) \in keys
                                THEN {} ELSE projConversations[q]]
    /\ projPosts' = [q \in ProjKeys |->
                        IF KeyOf(ProjNamespace, "projectPosts", IdChars(q)) \in keys THEN {}
                        ELSE projPosts[q]]
    /\ convHash' = [v \in ConvKeys |-> IF ConvMainKey(v) \in keys THEN EmptyHash ELSE convHash[v]]
    /\ convMessages' = [v \in ConvKeys |-> IF ConvMessagesKey(v) \in keys THEN <<>> ELSE convMessages[v]]
    /\ convPosts' = [v \in ConvKeys |-> IF ConvPostsKey(v) \in keys THEN {} ELSE convPosts[v]]
    /\ postHash' = [q \in PostKeys |-> IF PostMainKey(q) \in keys THEN EmptyHash ELSE postHash[q]]
    /\ UNCHANGED <<nextUser, nextSub, nextCust, nextProj, nextConv, nextPost>>

\* purgeTestData called while no other call is in flight: KEYS and the DELs
\* run back to back
PurgeTestData ==
    /\ AllIdle
    /\ DelKeys(TestKeys)
    /\ last' = [op |-> "purge", ok |-> TRUE, keys |-> TestKeys]

\* purgeTestData, first command: KEYS '*', then the filter
PurgeKeys(c) ==
    /\ Ready(c)
    /\ calls' = [calls EXCEPT ![c] =
                    [pc |-> IF TestKeys = {} THEN "done" ELSE "purging", op |-> "purge", keys |-> TestKeys]]
    /\ UNCHANGED storeVars

\* purgeTestData, one round of the loop: DEL of the next key, in the order in
\* which KEYS listed them (any order)
PurgeDel(c) ==
    /\ calls[c].pc = "purging"
    /\ \E key \in calls[c].keys :
          /\ DelKeys({key})
          /\ calls' = [calls EXCEPT ![c] =
                          [pc |-> IF calls[c].keys = {key} THEN "done" ELSE "purging", op |-> "purge",
                           keys |-> calls[c].keys \ {key}]]

\* the user that the calls next to a purge create
PurgeUserDatas == {data \in CallUserDatas : data.email = <<97>>}

\* a step that caller c's call takes by itself: a purge, or a create of one of
\* the repositories
PurgeCallStep(c) ==
    \/ PurgeKeys(c)
    \/ PurgeDel(c)
    \/ /\ \/ \E data \in PurgeUserDatas : UpsertGet(c, data, "create")
          \/ UpsertHSet(c)
          \/ UpsertSetIndex(c)
       /\ UNCHANGED <<subVars, custVars, projVars, convVars, postVars>>
    \/ /\ \E data \in CallSubscriptionDatas : SubCreateGet(c, data)
       /\ UNCHANGED <<userVars, custVars, projVars, convVars, postVars>>
    \/ /\ \/ \E data \in CallCustomerDatas : CustCreateCall(c, data)
          \/ \E id \in KnownCustIds : SetPermissionCall(c, id, "B", "viewer")
       /\ UNCHANGED <<userVars, subVars, projVars, convVars, postVars>>

PurgeNext ==
    /\ \/ /\ AllIdle
          /\ \/ /\ \E data \in PurgeUserDatas : UserUpsert(data, "create")
                /\ UNCHANGED <<subVars, custVars, projVars, convVars, postVars>>
             \/ /\ \E data \in CallSubscriptionDatas : SubCreate(data)
                /\ UNCHANGED <<userVars, custVars, projVars, convVars, postVars>>
             \/ /\ \/ \E data \in CallCustomerDatas : CustCreate(data)
                   \/ \E id \in KnownCustIds : CustSetPermission(id, "B", "viewer")
                /\ UNCHANGED <<userVars, subVars, projVars, convVars, postVars>>
             \/ /\ \E data \in ProjectDatas :
                      /\ DOMAIN data = {"name", "customerId"}
                      /\ data.name = "p1"
                      /\ ProjUpsert(data, "create", {})
                /\ UNCHANGED <<userVars, subVars, custVars, convVars, postVars>>
             \/ PurgeTestData
          /\ UNCHANGED calls
       \/ CallStep(PurgeCallStep)
    /\ OneCustomer'
    /\ UNCHANGED <<updCall, setCall>>

SpecPurge == Init /\ [][PurgeNext]_vars

====
